---------------------------- MODULE Spec2Model ----------------------------
(***************************************************************************)
(* Voice agent: session registry (webhooks.py), HTTP control plane         *)
(* (announce / wake / reload-tools / health), per-connection setup         *)
(* (bot.py: on_connection -> create_pipeline -> load_tools) and the n8n    *)
(* workflow discovery pass with its TTL-bounded detail cache (n8n.py).     *)
(*                                                                         *)
(* The process runs one cooperative asyncio scheduler: every action below  *)
(* is the code that runs between two suspension points (awaits).           *)
(***************************************************************************)
EXTENDS Integers, Sequences, FiniteSets, TLC

VARIABLES
    sessions,        \* webhooks._sessions: insertion-ordered dict id -> task
    frames,          \* per PipelineTask: the TTSSpeakFrame texts queued into it
    conn,            \* per connection: position and locals of on_connection
    req,             \* per control-plane request: position and response
    cache,           \* n8n._workflow_details_cache: workflow id -> detail
    cacheTimestamp,  \* n8n._cache_timestamp
    now,             \* time.time()
    staleIds,        \* history: cached ids whose fetch was issued before the last reload
    coldDue,         \* history: a reload happened and no pass has started since
    warm,            \* history: a pass went through without failure, no clear since its start
    hist,            \* registry call log (used by the registry-only specification)
    remote,          \* what search_workflows answers, as parse_mcp_result gives it
    workflowNameMap, \* bot._workflow_name_map: tool name -> workflow name
    calc             \* one call of a pure function: its argument, its position, its result

vars == <<sessions, frames, conn, req, cache, cacheTimestamp, now, staleIds, coldDue, warm, hist,
          remote, workflowNameMap, calc>>

-----------------------------------------------------------------------------
(* Bounds of the model *)

MaxConn == 2        \* connections established during a run
MaxReq == 1         \* control-plane requests issued during a run
MaxTicks == 1       \* clock advances during a run
MaxOps == 3         \* length of the call log of the registry-only specification
MaxListing == 2     \* workflows in the listing search_workflows answers with

(* Program constants *)

CacheTtlSeconds == 3600

Conns == 1..MaxConn
Reqs == 1..MaxReq

\* connection.pc_id: one fresh id per connection object
PcId(c) == c
\* an id no connection carries (the request default "default", "nonexistent")
UnknownId == 0
SessionIds == {UnknownId} \cup {PcId(c) : c \in DOMAIN conn}

\* the PipelineTask object create_pipeline builds for connection c
TaskOf(c) == <<"PipelineTask", c>>
None == << >>

\* time.time() lies far past the epoch: at least one TTL after it
StartTime == CacheTtlSeconds + 1
\* the clock advances by exactly one TTL, or by just more than one
TickDeltas == {CacheTtlSeconds, CacheTtlSeconds + 1}
TicksUsed(t) == (t - StartTime) \div CacheTtlSeconds

-----------------------------------------------------------------------------
(* Strings are sequences of one-character strings *)

UpperChars == << "A","B","C","D","E","F","G","H","I","J","K","L","M",
                 "N","O","P","Q","R","S","T","U","V","W","X","Y","Z" >>
LowerChars == << "a","b","c","d","e","f","g","h","i","j","k","l","m",
                 "n","o","p","q","r","s","t","u","v","w","x","y","z" >>

\* U+0130, the one letter whose lowercase form is two characters: "i" followed
\* by U+0307
DottedCapitalI == "U+0130"
CombiningDot == "U+0307"

\* str.lower() on one character: the characters it becomes
LowerChar(ch) ==
    IF ch = DottedCapitalI THEN <<"i", CombiningDot>>
    ELSE IF \E i \in 1..Len(UpperChars) : UpperChars[i] = ch
    THEN <<LowerChars[CHOOSE i \in 1..Len(UpperChars) : UpperChars[i] = ch]>>
    ELSE <<ch>>

\* str.lower()
RECURSIVE Lower(_)
Lower(s) == IF s = << >> THEN << >> ELSE LowerChar(Head(s)) \o Lower(Tail(s))

\* mutant: the old character is removed instead of replaced
ReplaceCharDropping(s, old, new) == SelectSeq(s, LAMBDA ch : ch # old)

\* str.replace(old, new) for a one-character old
ReplaceChar(s, old, new) == [i \in 1..Len(s) |-> IF s[i] = old THEN new ELSE s[i]]

\* mutant: hyphens become underscores first, spaces then become hyphens
SanitizeToolNameSpaceToHyphen(name) ==
    ReplaceChar(ReplaceChar(Lower(name), "-", "_"), " ", "-")

\* name.lower().replace(" ", "_").replace("-", "_")
SanitizeToolName(name) == ReplaceChar(ReplaceChar(Lower(name), " ", "_"), "-", "_")

Whitespace == {" ", "\t", "\n"}

RECURSIVE LStrip(_)
LStrip(s) == IF s # << >> /\ Head(s) \in Whitespace THEN LStrip(Tail(s)) ELSE s

RECURSIVE RStrip(_)
RStrip(s) ==
    IF s # << >> /\ s[Len(s)] \in Whitespace THEN RStrip(SubSeq(s, 1, Len(s) - 1)) ELSE s

\* str.strip()
Strip(s) == RStrip(LStrip(s))

WebhookNodeType == "n8n-nodes-base.webhook"

\* extract_webhook_description: the nodes are scanned in order; a webhook node
\* returns its notes, else its description, when non-empty after strip
RECURSIVE ExtractFromNodes(_)

\* mutant: the type of the node is not looked at
ExtractFromNodesAnyType(nodes) ==
    IF nodes = << >> THEN << >>
    ELSE LET node == Head(nodes) IN
         IF Strip(node.notes) # << >> THEN Strip(node.notes)
         ELSE IF Strip(node.description) # << >> THEN Strip(node.description)
         ELSE ExtractFromNodes(Tail(nodes))

ExtractFromNodes(nodes) ==
    IF nodes = << >> THEN << >>
    ELSE LET node == Head(nodes) IN
         IF node.type = WebhookNodeType
         THEN IF Strip(node.notes) # << >> THEN Strip(node.notes)
              ELSE IF Strip(node.description) # << >> THEN Strip(node.description)
              ELSE ExtractFromNodes(Tail(nodes))
         ELSE ExtractFromNodes(Tail(nodes))

\* mutant: the notes of the webhook nodes are tried first, then their descriptions
ExtractNotesFirst(details) ==
    LET webhooks == SelectSeq(details.workflow.nodes, LAMBDA node : node.type = WebhookNodeType)
        blank == [i \in 1..Len(webhooks) |-> [webhooks[i] EXCEPT !.description = << >>]]
    IN  IF ExtractFromNodes(blank) # << >> THEN ExtractFromNodes(blank)
        ELSE ExtractFromNodes(webhooks)

ExtractWebhookDescription(details) == ExtractFromNodes(details.workflow.nodes)

-----------------------------------------------------------------------------
(* The remote n8n server: what search_workflows and get_workflow_details answer *)

Catalog ==
    << [id |-> "1", name |-> <<"M","y"," ","W","f">>, description |-> << >>],
       [id |-> "2", name |-> <<"g","e","t","-","d">>, description |-> <<"F","e","t","c","h">>] >>

WorkflowIds == {Catalog[i].id : i \in 1..Len(Catalog)}

\* the parsed search_workflows answer {"data": [...], "count": N}
ListingResult(listing) == [kind |-> "object", data |-> listing]

\* mutant: no isinstance check, a bare JSON list is taken as the listing too
ListingOfAnyList(result) == IF result.kind \in {"object", "list"} THEN result.data ELSE << >>

\* workflows = workflows_data["data"] if it is a dict with "data", else []
ListingOf(result) == IF result.kind = "object" THEN result.data ELSE << >>

\* the listing the passes of this run iterate over
Workflows == ListingOf(remote)

\* workflow["name"] and workflow["id"] do not raise KeyError
WellFormed(workflow) == "name" \in DOMAIN workflow /\ "id" \in DOMAIN workflow

\* workflow.get("description"): None when the key is missing
DescriptionOf(workflow) ==
    IF "description" \in DOMAIN workflow THEN workflow.description ELSE None

RemoteDetails(id) ==
    IF id = "1"
    THEN [workflow |-> [nodes |->
            << [type |-> WebhookNodeType, notes |-> <<" ","D","o"," ">>, description |-> << >>] >>]]
    ELSE [workflow |-> [nodes |->
            << [type |-> "n8n-nodes-base.set", notes |-> <<"s">>, description |-> << >>],
               [type |-> WebhookNodeType, notes |-> << >>, description |-> << >>] >>]]


-----------------------------------------------------------------------------
(* Session registry (webhooks.py): a dict in insertion order *)

HasKey(s, id) == \E i \in 1..Len(s) : s[i].id = id

\* mutant: the registry is rebound to a dict holding the new session alone
RegisterSessionAlone(s, id, task) == << [id |-> id, task |-> task] >>

\* mutant: setdefault, a registered id keeps its first task
RegisterSessionKeepFirst(s, id, task) ==
    IF HasKey(s, id) THEN s ELSE Append(s, [id |-> id, task |-> task])

\* _sessions[session_id] = task
RegisterSession(s, id, task) ==
    IF HasKey(s, id)
    THEN [i \in 1..Len(s) |-> IF s[i].id = id THEN [id |-> id, task |-> task] ELSE s[i]]
    ELSE Append(s, [id |-> id, task |-> task])

\* mutant: _sessions.clear()
UnregisterSessionAll(s, id) == << >>

\* mutant: popitem(), the entry registered last is removed whatever its id
UnregisterSessionLast(s, id) == IF s = << >> THEN s ELSE SubSeq(s, 1, Len(s) - 1)

\* _sessions.pop(session_id, None)
UnregisterSession(s, id) == SelectSeq(s, LAMBDA e : e.id # id)

\* mutant: the lookup answers for every connection id, registered or not
GetTaskOfAnyConnection(s, id) == IF id = UnknownId THEN None ELSE TaskOf(id)

\* mutant: an unknown id falls back to the first active session
GetTaskOrFirst(s, id) ==
    IF HasKey(s, id) THEN s[CHOOSE i \in 1..Len(s) : s[i].id = id].task
    ELSE IF s # << >> THEN s[1].task ELSE None

\* _sessions.get(session_id)
GetTask(s, id) ==
    IF HasKey(s, id) THEN s[CHOOSE i \in 1..Len(s) : s[i].id = id].task ELSE None

\* mutant: only the session registered first is listed
ListSessionsFirst(s) == IF s = << >> THEN << >> ELSE <<s[1].id>>

\* list(_sessions.keys())
ListSessions(s) == [i \in 1..Len(s) |-> s[i].id]

-----------------------------------------------------------------------------
(* Workflow detail cache (n8n.py) *)

EmptyCache == [id \in {} |-> None]

CachePut(cch, id, detail) == [k \in DOMAIN cch \cup {id} |-> IF k = id THEN detail ELSE cch[k]]

\* mutant: >= instead of >
CacheExpiredAtTtl(t, stamp) == t - stamp >= CacheTtlSeconds

\* current_time - _cache_timestamp > _cache_ttl_seconds
CacheExpired(t, stamp) == t - stamp > CacheTtlSeconds

\* mutant: on expiry only one entry is evicted
TtlCheckedCacheOneEvicted(cch, t, stamp) ==
    IF CacheExpired(t, stamp) /\ DOMAIN cch # {}
    THEN LET gone == CHOOSE k \in DOMAIN cch : TRUE IN [k \in DOMAIN cch \ {gone} |-> cch[k]]
    ELSE cch

\* the cache after the TTL check at the start of a discovery pass
TtlCheckedCache(cch, t, stamp) == IF CacheExpired(t, stamp) THEN EmptyCache ELSE cch
TtlCheckedStamp(t, stamp) == IF CacheExpired(t, stamp) THEN t ELSE stamp

\* clear_caches(): the cache and the timestamp it leaves
ClearedCache(cch) == EmptyCache
\* mutant: the timestamp is left as it was
ClearedStampKept(stamp) == stamp
ClearedStamp(stamp) == 0

-----------------------------------------------------------------------------
(* One discovery pass (discover_n8n_workflows) *)

ExecutePrefix == <<"E","x","e","c","u","t","e"," ">>
WorkflowSuffix == <<" ","w","o","r","k","f","l","o","w">>

\* mutant: no generated default after the root description
FallbackDescriptionRootOnly(workflow, toolName) == DescriptionOf(workflow)

\* description = workflow.get("description") or f"Execute {tool_name} workflow"
FallbackDescription(workflow, toolName) ==
    IF DescriptionOf(workflow) # << >> THEN DescriptionOf(workflow)
    ELSE ExecutePrefix \o toolName \o WorkflowSuffix

FlexibleParameters == [type |-> "object", additionalProperties |-> TRUE]

\* the tool dict built for one listed workflow, given what the details gave
ToolFor(workflow, description) ==
    LET toolName == SanitizeToolName(workflow.name) IN
    [name |-> toolName,
     description |-> IF description # << >> THEN description
                     ELSE FallbackDescription(workflow, toolName),
     parameters |-> FlexibleParameters]

\* mutant: a key that is bound keeps its value
MapPutKeepExisting(m, k, v) ==
    [x \in DOMAIN m \cup {k} |-> IF x \in DOMAIN m THEN m[x] ELSE v]

\* m[k] = v
MapPut(m, k, v) == [x \in DOMAIN m \cup {k} |-> IF x = k THEN v ELSE m[x]]
EmptyMap == [x \in {} |-> << >>]

\* mutant: setdefault, a tool name keeps the first workflow bound to it
BindNameKeepFirst(m, workflow) ==
    IF SanitizeToolName(workflow.name) \in DOMAIN m THEN m
    ELSE MapPut(m, SanitizeToolName(workflow.name), workflow.name)

\* workflow_name_map[tool_name] = wf_name
BindName(m, workflow) == MapPut(m, SanitizeToolName(workflow.name), workflow.name)

\* The for-loop from workflow index i on, up to its next suspension: a listed
\* workflow whose id is cached is served from the cache, the first one that is
\* not stops the loop at the await of get_workflow_details. An entry without
\* name or id raises KeyError into the outer except: the pass returns what it
\* has built so far.
RECURSIVE LoopFrom(_, _, _, _)

\* mutant: no cache lookup, the details of every listed workflow are fetched
LoopFromUncached(i, tools, map, cch) ==
    [next |-> i, tools |-> tools, map |-> map, hits |-> {}]

LoopFrom(i, tools, map, cch) ==
    IF i > Len(Workflows) THEN [next |-> i, tools |-> tools, map |-> map, hits |-> {}]
    ELSE LET wf == Workflows[i] IN
         IF ~WellFormed(wf)
         THEN [next |-> Len(Workflows) + 1, tools |-> tools, map |-> map, hits |-> {}]
         ELSE
         IF wf.id \in DOMAIN cch
         THEN LET rest == LoopFrom(i + 1,
                                   Append(tools, ToolFor(wf, ExtractWebhookDescription(cch[wf.id]))),
                                   BindName(map, wf), cch)
              IN [rest EXCEPT !.hits = @ \cup {wf.id}]
         ELSE [next |-> i, tools |-> tools, map |-> map, hits |-> {}]
-----------------------------------------------------------------------------
(* WebSearchTool.search (web_search.py) *)

TimeoutApology == "The search took too long. Please try a simpler query."
SearchTrouble == "I had trouble searching the web. Please try again."
NoResults == "I couldn't find any results for that search."
NoSummary == "I found some results but couldn't summarize them."
NoDescription == "No description available."
\* what ollama answers with, and the body of the first search result
SummaryText == "<summary>"
FirstBody == "<body of the first result>"

Return(value) == [kind |-> "return", value |-> value]
Raise(exception) == [kind |-> "raise", value |-> exception]

\* what the awaited calls do: asyncio.wait_for(_do_search) times out, raises,
\* or gives a list; the formatting loop raises on a result that is not a dict
\* of strings; ollama.chat raises, or answers with a blank or a real summary
\* of a summary; the first result has a "body" or not
SearchWorlds ==
    [search : {"timeout", "error", "empty", "results"}, format : {"ok", "raises"},
     chat : {"summary", "blank", "error"}, body : {"present", "absent"}]

\* _summarize_results
SummarizeResults(w) ==
    IF w.format = "raises" THEN Raise("AttributeError")
    ELSE IF w.chat = "error"
    THEN Return(IF w.body = "present" THEN FirstBody ELSE NoDescription)
    ELSE IF w.chat = "blank" THEN Return(NoSummary)
    ELSE Return(SummaryText)

\* the try block of search
SearchBody(w) ==
    IF w.search = "timeout" THEN Raise("TimeoutError")
    ELSE IF w.search = "error" THEN Raise("Exception")
    ELSE IF w.search = "empty" THEN Return(NoResults)
    ELSE SummarizeResults(w)

\* mutant: only the timeout is caught
SearchHandlersTimeoutOnly(result) ==
    IF result.kind = "raise" /\ result.value = "TimeoutError" THEN Return(TimeoutApology)
    ELSE result

\* the except clauses of search
SearchHandlers(result) ==
    IF result.kind = "raise"
    THEN IF result.value = "TimeoutError" THEN Return(TimeoutApology) ELSE Return(SearchTrouble)
    ELSE result

WebSearch(w) == SearchHandlers(SearchBody(w))


-----------------------------------------------------------------------------------------------------------------------------------------------------
(* Tool handlers (bot.py register_tool_handlers) and workflow execution *)

WebSearchName == <<"w","e","b","_","s","e","a","r","c","h">>

\* mutant: the closure reads the loop variable when it is called, after the
\* loop has ended: every handler runs the workflow of one and the same item
HandlerBindingLate(map, toolName) == map[CHOOSE k \in DOMAIN map : TRUE]

\* handle_workflow(params, wf_name=workflow_name): the default argument fixes
\* the workflow name of this iteration
HandlerBinding(map, toolName) == map[toolName]

\* llm.register_function("web_search", ...), then one handler per item of
\* _workflow_name_map; a later registration under a name replaces an earlier
RegisterToolHandlers(map) ==
    [t \in DOMAIN map \cup {WebSearchName} |->
        IF t \in DOMAIN map
        THEN [kind |-> "workflow", wf_name |-> HandlerBinding(map, t)]
        ELSE [kind |-> "web_search", wf_name |-> None]]

NoHandlers == [t \in {} |-> None]

\* function_schemas of load_tools, by name: the web_search schema first, then
\* one schema per tool the discovery pass returned
FunctionSchemas(tools) == <<WebSearchName>> \o [i \in 1..Len(tools) |-> tools[i].name]

\* settings.n8n_mcp_url.rsplit("/", 2)[0]
N8nBase == "http://n8n:5678"

\* f"{base_url.rstrip('/')}/webhook/{workflow_name}"
WebhookUrl(base, workflowName) == <<base, "/webhook/", workflowName>>

\* what the POST of execute_n8n_workflow can do: answer 2xx with a JSON body,
\* fail in transport, answer a non-2xx status (raise_for_status), time out
PostOutcomes == {"ok", "transport_error", "bad_status", "timeout"}
ToolArguments == {<<"room", "kitchen">>}

\* the JSON body a workflow answers with
WorkflowResult(workflowName) == [workflow |-> workflowName, done |-> TRUE]

\* mutant: the exception is logged and nothing is handed to the callback
ErrorPayloadDropped(e) == None

\* {"error": str(e)}
ErrorPayload(e) == [error |-> e]

\* what handle_workflow hands to params.result_callback
DeliveredPayload(workflowName, outcome) ==
    IF outcome = "ok" THEN WorkflowResult(workflowName) ELSE ErrorPayload(outcome)

\* mutant: the error payload is handed over in a finally, after the result too
WorkflowCallbacksFinally(workflowName, outcome) ==
    IF outcome = "ok" THEN <<WorkflowResult(workflowName), ErrorPayload(outcome)>>
    ELSE <<ErrorPayload(outcome)>>

\* the calls of params.result_callback one run of handle_workflow makes
WorkflowCallbacks(workflowName, outcome) == <<DeliveredPayload(workflowName, outcome)>>

\* params.arguments.get("query", ""): missing or empty, or a text
Queries == {"", "weather"}

NoQueryProvided == [error |-> "No query provided"]

-----------------------------------------------------------------------------
(* Initial state: a fresh process, no connection, nothing cached *)

\* ChatterboxTTSService._session is None
NoHttpSession == 0

\* the ChatterboxTTSService a pipeline is built with: no HTTP session yet
\* (created: the aiohttp sessions made so far, numbered; open / closing: the
\* ones not closed and the ones whose close() is under way)
NewTtsService ==
    [session |-> NoHttpSession, created |-> 0, open |-> {}, closing |-> {},
     speak |-> "idle", using |-> NoHttpSession, yielded |-> "none",
     cleanup |-> "idle", last |-> "none"]

IdleConn ==
    [pc |-> "idle", i |-> 0, tools |-> << >>, nameMap |-> EmptyMap, fetched |-> {},
     fetchStale |-> FALSE, cold |-> FALSE, usedStale |-> FALSE, exit |-> "none",
     search |-> "none", failed |-> {}, handlers |-> NoHandlers,
     call |-> None, delivered |-> None, window |-> FALSE, follows |-> FALSE,
     asked |-> None, results |-> << >>, tts |-> NewTtsService]

\* no function is being called on its own
NoCalc == [fn |-> "none", stage |-> "idle", arg |-> None, out |-> None, again |-> None]

\* body: the fields of the JSON body besides session_id
IdleReq == [pc |-> "idle", op |-> "none", sid |-> UnknownId, body |-> None, resp |-> None]

InitFor(connections) ==
    /\ sessions = << >>
    /\ frames = [c \in connections |-> << >>]
    /\ conn = [c \in connections |-> IdleConn]
    /\ req = [r \in Reqs |-> IdleReq]
    /\ cache = EmptyCache
    /\ cacheTimestamp = 0
    /\ now = StartTime
    /\ staleIds = {}
    /\ coldDue = FALSE
    /\ warm = FALSE
    /\ hist = << >>
    /\ workflowNameMap = EmptyMap

Init == InitFor(Conns) /\ remote = ListingResult(Catalog) /\ calc = NoCalc

-----------------------------------------------------------------------------
(* on_connection (bot.py) *)

\* what a discovery pass returned (search: whether search_workflows answered;
\* failed: the listing indices whose detail fetch raised)
PassResult(search, tools, map, failed, usedStale) ==
    [search |-> search, tools |-> tools, map |-> map, failed |-> failed,
     usedStale |-> usedStale]

\* no pass was run: load_tools offers web_search alone
NoPass == PassResult("none", << >>, EmptyMap, {}, FALSE)

\* The end of create_pipeline and the registration: after load_tools has
\* returned nothing suspends until `await runner.run(task)`. The handlers are
\* built from the global name map as load_tools left it. The pipeline
\* construction may raise (ok = FALSE); on_connection then ends unregistered.
FinishSetup(c, pass, ok) ==
    IF ok
    THEN /\ conn' = [conn EXCEPT ![c] = [@ EXCEPT !.pc = "running", !.i = 0,
                                                  !.search = pass.search,
                                                  !.tools = pass.tools, !.nameMap = pass.map,
                                                  !.failed = pass.failed,
                                                  !.usedStale = pass.usedStale,
                                                  !.handlers =
                                                      RegisterToolHandlers(workflowNameMap')]]
         /\ sessions' = RegisterSession(sessions, PcId(c), TaskOf(c))
    ELSE /\ conn' = [conn EXCEPT ![c] = [IdleConn EXCEPT !.pc = "done", !.exit = "setup_failed"]]
         /\ UNCHANGED sessions

\* The pass after its loop ran from a result L of LoopFrom: suspended at the
\* next get_workflow_details call, or returned to load_tools, which binds the
\* global name map to the map of this pass.
AfterLoop(c, L, failed, ok) ==
    LET used == conn[c].usedStale \/ (conn[c].cold /\ L.hits \cap staleIds' # {}) IN
    IF L.next <= Len(Workflows)
    THEN /\ conn' = [conn EXCEPT ![c] = [@ EXCEPT !.pc = "fetch", !.i = L.next,
                                                  !.search = "returned",
                                                  !.tools = L.tools, !.nameMap = L.map,
                                                  !.failed = failed,
                                                  !.fetched = @ \cup {Workflows[L.next].id},
                                                  !.fetchStale = FALSE,
                                                  !.usedStale = used]]
         /\ UNCHANGED <<sessions, workflowNameMap, warm>>
    ELSE /\ workflowNameMap' = L.map
         \* history: the pass went through the whole listing without a failure
         /\ warm' = (warm \/ (failed = {} /\ conn[c].window /\ Len(L.tools) = Len(Workflows)))
         /\ FinishSetup(c, PassResult("returned", L.tools, L.map, failed, used), ok)

\* A client connects: pc ids are handed out in arrival order. create_pipeline
\* runs to load_tools, which awaits initialize_mcp_servers.
Connect(c) ==
    /\ conn[c].pc = "idle"
    /\ IF c = 1 THEN TRUE ELSE conn[c - 1].pc # "idle"
    /\ conn' = [conn EXCEPT ![c].pc = "mcp_init"]
    /\ UNCHANGED <<sessions, frames, req, cache, cacheTimestamp, now, staleIds, coldDue, warm, hist, calc,
                   remote, workflowNameMap>>

\* n8n is not configured, initialize_mcp_servers returned without an "n8n"
\* session, or load_tools caught an exception: no discovery pass, only
\* web_search is offered and the global name map stays as it is.
DiscoverSkipped(c, ok) ==
    /\ conn[c].pc = "mcp_init"
    /\ UNCHANGED workflowNameMap
    /\ FinishSetup(c, NoPass, ok)
    /\ UNCHANGED <<frames, req, cache, cacheTimestamp, now, staleIds, coldDue, warm, hist, calc, remote>>

\* discover_n8n_workflows starts: the TTL check, then the search_workflows call.
DiscoverStart(c) ==
    /\ conn[c].pc = "mcp_init"
    /\ cache' = TtlCheckedCache(cache, now, cacheTimestamp)
    /\ cacheTimestamp' = TtlCheckedStamp(now, cacheTimestamp)
    /\ staleIds' = staleIds \cap DOMAIN cache'
    \* history: a clear ends the window of every pass started before it
    /\ conn' = [d \in DOMAIN conn |->
                  IF d = c
                  THEN [conn[d] EXCEPT !.pc = "search", !.cold = coldDue, !.window = TRUE,
                                       !.follows = warm /\ ~CacheExpired(now, cacheTimestamp)]
                  ELSE [conn[d] EXCEPT !.window = @ /\ ~CacheExpired(now, cacheTimestamp)]]
    /\ coldDue' = FALSE
    /\ warm' = (warm /\ ~CacheExpired(now, cacheTimestamp))
    /\ UNCHANGED <<sessions, frames, req, now, hist, calc, remote, workflowNameMap>>

\* search_workflows answered: the listing is taken from the parsed answer and
\* the loop runs to its first await (an answer that is no {"data": [...]}
\* gives no workflow).
SearchReturned(c, ok) ==
    /\ conn[c].pc = "search"
    /\ UNCHANGED staleIds
    /\ AfterLoop(c, LoopFrom(1, << >>, EmptyMap, cache), {}, ok)
    /\ UNCHANGED <<frames, req, cache, cacheTimestamp, now, coldDue, hist, calc, remote>>

\* search_workflows raised: the outer except logs it and the pass returns no
\* tool and an empty name map.
SearchFailed(c, ok) ==
    /\ conn[c].pc = "search"
    /\ workflowNameMap' = EmptyMap
    /\ FinishSetup(c, PassResult("raised", << >>, EmptyMap, {}, conn[c].usedStale), ok)
    /\ UNCHANGED <<frames, req, cache, cacheTimestamp, now, staleIds, coldDue, warm, hist, calc, remote>>

\* mutant: the read is made on the cache as it was before the detail was stored
DetailReadBeforeStore(cch, id) ==
    IF id \in DOMAIN cache THEN ExtractWebhookDescription(cache[id]) ELSE << >>

\* workflow_details = _workflow_details_cache[wf_id], then the extraction: an
\* id that is not in the cache raises KeyError into the inner except and the
\* description stays ""
DetailRead(cch, id) ==
    IF id \in DOMAIN cch THEN ExtractWebhookDescription(cch[id]) ELSE << >>

\* get_workflow_details answered: the detail is cached, read back, and the loop
\* goes on with the next listed workflow.
FetchReturned(c, ok) ==
    /\ conn[c].pc = "fetch"
    /\ LET wf == Workflows[conn[c].i] IN
       /\ cache' = CachePut(cache, wf.id, RemoteDetails(wf.id))
       /\ staleIds' = IF conn[c].fetchStale THEN staleIds \cup {wf.id} ELSE staleIds \ {wf.id}
       /\ AfterLoop(c, LoopFrom(conn[c].i + 1,
                                Append(conn[c].tools,
                                       ToolFor(wf, DetailRead(cache', wf.id))),
                                BindName(conn[c].nameMap, wf), cache'),
                    conn[c].failed, ok)
    /\ UNCHANGED <<frames, req, cacheTimestamp, now, coldDue, hist, calc, remote>>

\* mutant: the exception of get_workflow_details reaches the outer except,
\* which ends the pass with what it has built so far
LoopAfterFetchFailureAbort(i, tools, map, cch) ==
    [next |-> Len(Workflows) + 1, tools |-> tools, map |-> map, hits |-> {}]

\* the inner except: the description stays "", the tool of workflow i gets the
\* fallback text and the loop goes on
LoopAfterFetchFailure(i, tools, map, cch) ==
    LoopFrom(i + 1, Append(tools, ToolFor(Workflows[i], << >>)),
             BindName(map, Workflows[i]), cch)

\* mutant: the failure is remembered, an empty detail is stored for the id
CacheAfterFailedFetchStored(cch, id) == CachePut(cch, id, [workflow |-> [nodes |-> << >>]])

\* the call raised before the assignment to _workflow_details_cache[wf_id]
CacheAfterFailedFetch(cch, id) == cch

\* get_workflow_details raised: nothing is cached, the description falls back.
FetchFailed(c, ok) ==
    /\ conn[c].pc = "fetch"
    /\ UNCHANGED staleIds
    /\ cache' = CacheAfterFailedFetch(cache, Workflows[conn[c].i].id)
    /\ AfterLoop(c, LoopAfterFetchFailure(conn[c].i, conn[c].tools, conn[c].nameMap, cache'),
                 conn[c].failed \cup {conn[c].i}, ok)
    /\ UNCHANGED <<frames, req, cacheTimestamp, now, coldDue, hist, calc, remote>>

\* the LLM calls a workflow tool: handle_workflow awaits execute_n8n_workflow,
\* which POSTs the arguments to the webhook of the bound workflow
InvokeTool(c, toolName, arguments) ==
    /\ conn[c].pc = "running"
    /\ toolName \in DOMAIN conn[c].handlers
    /\ conn[c].handlers[toolName].kind = "workflow"
    /\ conn' = [conn EXCEPT ![c] =
                  [@ EXCEPT !.pc = "tool",
                            !.call = [tool |-> toolName,
                                      url |-> WebhookUrl(N8nBase,
                                                         conn[c].handlers[toolName].wf_name),
                                      json |-> arguments,
                                      outcome |-> "pending"],
                            !.delivered = None, !.asked = None, !.results = << >>]]
    /\ UNCHANGED <<sessions, frames, req, cache, cacheTimestamp, now, staleIds, coldDue, warm, hist, calc,
                   remote, workflowNameMap>>

\* the POST ended: its JSON result, or the error payload built by the except
\* of handle_workflow, goes to params.result_callback; the pipeline runs on
PostReturned(c, outcome) ==
    /\ conn[c].pc = "tool"
    /\ conn' = [conn EXCEPT ![c] =
                  [@ EXCEPT !.pc = "running",
                            !.call = [@ EXCEPT !.outcome = outcome],
                            !.delivered =
                                DeliveredPayload(conn[c].handlers[conn[c].call.tool].wf_name,
                                                 outcome),
                            !.results =
                                WorkflowCallbacks(conn[c].handlers[conn[c].call.tool].wf_name,
                                                  outcome)]]
    /\ UNCHANGED <<sessions, frames, req, cache, cacheTimestamp, now, staleIds, coldDue, warm, hist, calc,
                   remote, workflowNameMap>>

\* the LLM calls web_search: handle_web_search reads the query; without one it
\* hands the error payload to params.result_callback, with one it awaits
\* WebSearchTool.search
InvokeWebSearch(c, query) ==
    /\ conn[c].pc = "running"
    /\ conn[c].handlers[WebSearchName].kind = "web_search"
    /\ conn' = [conn EXCEPT ![c] =
                  [@ EXCEPT !.pc = IF query # "" THEN "web_search" ELSE "running",
                            !.call = None, !.delivered = None,
                            !.asked = [query |-> query],
                            !.results = IF query # "" THEN << >> ELSE <<NoQueryProvided>>]]
    /\ UNCHANGED <<sessions, frames, req, cache, cacheTimestamp, now, staleIds, coldDue, warm, hist, calc,
                   remote, workflowNameMap>>

\* mutant: the text is handed over and the payload of the else branch after it
SearchCallbacksFallThrough(found) ==
    IF found.kind = "return" THEN <<[result |-> found.value], NoQueryProvided>> ELSE << >>

\* the calls of params.result_callback after search has ended: one with the
\* text it returned; an exception of search would leave the handler before it
SearchCallbacks(found) ==
    IF found.kind = "return" THEN <<[result |-> found.value]>> ELSE << >>

\* WebSearchTool.search has ended: handle_web_search hands the text over
WebSearchReturned(c, w) ==
    /\ conn[c].pc = "web_search"
    /\ conn' = [conn EXCEPT ![c] =
                  [@ EXCEPT !.pc = "running", !.results = SearchCallbacks(WebSearch(w))]]
    /\ UNCHANGED <<sessions, frames, req, cache, cacheTimestamp, now, staleIds, coldDue, warm, hist, calc,
                   remote, workflowNameMap>>

\* mutant: no finally, the session is unregistered only when run returns
SessionsAfterRunNoFinally(s, id, how) == IF how = "raised" THEN s ELSE UnregisterSession(s, id)

\* try: await runner.run(task) / finally: unregister_session(session_id)
SessionsAfterRun(s, id, how) == UnregisterSession(s, id)

\* `await runner.run(task)` ends, by returning or by raising; the finally block
\* unregisters the session.
RunEnded(c, how) ==
    /\ conn[c].pc \in {"running", "tool", "web_search"}
    /\ sessions' = SessionsAfterRun(sessions, PcId(c), how)
    /\ conn' = [conn EXCEPT ![c] = [IdleConn EXCEPT !.pc = "done", !.exit = how]]
    /\ UNCHANGED <<frames, req, cache, cacheTimestamp, now, staleIds, coldDue, warm, hist, calc,
                   remote, workflowNameMap>>

-----
(* HTTP control plane (webhooks.py). A text is the tuple of its pieces. *)

Messages == {"Dinner is ready"}
\* a missing (None) or empty optional field: both are falsy
NoText == ""
ReloadMessages == {NoText, "Tools updated"}
ToolNames == {NoText, "lights"}

Greetings ==
    << "Hey! What can I help you with?", "I'm here. What do you need?",
       "Yes? How can I help?", "What's up?" >>

\* mutant: random.choice replaced by greetings[0]
GreetingChoiceFirst(g) == Greetings[1]

\* random.choice(greetings), g being the index drawn
GreetingChoice(g) == Greetings[g]

NotFound(sid) == [code |-> 404, detail |-> <<"No active session: ", sid>>]

\* mutant: the frame is queued into the task of every connection
QueueFramesBroadcast(f, task, text) == [c \in DOMAIN f |-> Append(f[c], text)]

\* await task.queue_frames([TTSSpeakFrame(text=...)]): the frame is handed to
\* the task of that session when the call is made
QueueFrames(f, task, text) == [f EXCEPT ![task[2]] = Append(@, text)]

RequestFree(r) ==
    /\ req[r].pc = "idle"
    /\ IF r = 1 THEN TRUE ELSE req[r - 1].pc # "idle"

\* POST /announce
Announce(r, sid, message) ==
    /\ RequestFree(r)
    /\ LET task == GetTask(sessions, sid) IN
       IF task = None
       THEN /\ req' = [req EXCEPT ![r] = [pc |-> "done", op |-> "announce", sid |-> sid,
                                          body |-> [message |-> message],
                                          resp |-> NotFound(sid)]]
            /\ UNCHANGED frames
       ELSE /\ frames' = QueueFrames(frames, task, <<message>>)
            /\ req' = [req EXCEPT ![r] = [pc |-> "await", op |-> "announce", sid |-> sid,
                                          body |-> [message |-> message],
                                          resp |-> [code |-> 200, status |-> "announced",
                                                    session_id |-> sid]]]
    /\ UNCHANGED <<sessions, conn, cache, cacheTimestamp, now, staleIds, coldDue, warm, hist, calc,
                   remote, workflowNameMap>>

\* POST /wake: random.choice over the four greetings
Wake(r, sid, g) ==
    /\ RequestFree(r)
    /\ LET task == GetTask(sessions, sid) IN
       IF task = None
       THEN /\ req' = [req EXCEPT ![r] = [pc |-> "done", op |-> "wake", sid |-> sid,
                                          body |-> None, resp |-> NotFound(sid)]]
            /\ UNCHANGED frames
       ELSE /\ frames' = QueueFrames(frames, task, <<GreetingChoice(g)>>)
            /\ req' = [req EXCEPT ![r] = [pc |-> "await", op |-> "wake", sid |-> sid,
                                          body |-> None,
                                          resp |-> [code |-> 200, status |-> "greeted",
                                                    session_id |-> sid]]]
    /\ UNCHANGED <<sessions, conn, cache, cacheTimestamp, now, staleIds, coldDue, warm, hist, calc,
                   remote, workflowNameMap>>

\* mutant: the tool name is looked at first, the message second
ReloadAnnouncementToolFirst(toolName, message) ==
    IF toolName # NoText THEN <<"A new tool called ", toolName, " is now available.">>
    ELSE IF message # NoText THEN <<message>>
    ELSE << >>

\* the announcement of reload_tools, if any
ReloadAnnouncement(toolName, message) ==
    IF message # NoText THEN <<message>>
    ELSE IF toolName # NoText THEN <<"A new tool called ", toolName, " is now available.">>
    ELSE << >>

\* mutant: clear_caches() is not called
CacheAfterReloadKept(task, cch) == cch

\* mutant: clear_caches() runs before the session check
CacheAfterReloadUnchecked(task, cch) == ClearedCache(cch)

\* reload_tools up to clear_caches(): an unknown session raises the 404 first
CacheAfterReload(task, cch) == IF task = None THEN cch ELSE ClearedCache(cch)
StampAfterReload(task, stamp) == IF task = None THEN stamp ELSE ClearedStamp(stamp)

\* POST /reload-tools
ReloadTools(r, sid, toolName, message) ==
    /\ RequestFree(r)
    /\ LET task == GetTask(sessions, sid)
           text == ReloadAnnouncement(toolName, message)
       IN
       /\ cache' = CacheAfterReload(task, cache)
       /\ cacheTimestamp' = StampAfterReload(task, cacheTimestamp)
       /\ staleIds' = staleIds \cap DOMAIN cache'
       /\ IF task = None
          THEN /\ req' = [req EXCEPT ![r] = [pc |-> "done", op |-> "reload", sid |-> sid,
                                             body |-> [tool_name |-> toolName,
                                                       message |-> message],
                                             resp |-> NotFound(sid)]]
               /\ UNCHANGED <<frames, coldDue, warm, conn>>
          ELSE
            /\ frames' = IF text # << >> THEN QueueFrames(frames, task, text) ELSE frames
            /\ req' = [req EXCEPT ![r] = [pc |-> IF text # << >> THEN "await" ELSE "done",
                                          op |-> "reload", sid |-> sid,
                                          body |-> [tool_name |-> toolName,
                                                    message |-> message],
                                          resp |-> [code |-> 200, status |-> "reloaded",
                                                    tool_count |-> 0, session_id |-> sid]]]
            \* history: what is being fetched now dates from before this reload
            /\ coldDue' = TRUE
            /\ warm' = FALSE
            /\ conn' = [c \in DOMAIN conn |->
                          [conn[c] EXCEPT !.fetchStale = @ \/ conn[c].pc = "fetch",
                                          !.cold = FALSE, !.usedStale = FALSE,
                                          !.window = FALSE]]
    /\ UNCHANGED <<sessions, now, hist, calc, remote, workflowNameMap>>

\* GET /health
Health(r) ==
    /\ RequestFree(r)
    /\ req' = [req EXCEPT ![r] = [pc |-> "done", op |-> "health", sid |-> UnknownId,
                                  body |-> None,
                                  resp |-> [code |-> 200, status |-> "ok",
                                            active_sessions |-> ListSessions(sessions)]]]
    /\ UNCHANGED <<sessions, frames, conn, cache, cacheTimestamp, now, staleIds, coldDue, warm, hist, calc,
                   remote, workflowNameMap>>

\* queue_frames resumed the handler, which returns its response
Respond(r) ==
    /\ req[r].pc = "await"
    /\ req' = [req EXCEPT ![r].pc = "done"]
    /\ UNCHANGED <<sessions, frames, conn, cache, cacheTimestamp, now, staleIds, coldDue, warm, hist, calc,
                   remote, workflowNameMap>>

\* the wall clock advances
Tick(d) ==
    /\ TicksUsed(now) < MaxTicks
    /\ now' = now + d
    /\ UNCHANGED <<sessions, frames, conn, req, cache, cacheTimestamp, staleIds, coldDue, warm, hist, calc,
                   remote, workflowNameMap>>

-----------------------------------------------------------------------------

Next ==
    \/ \E c \in DOMAIN conn : Connect(c)
    \/ \E c \in DOMAIN conn : DiscoverStart(c)
    \/ \E c \in DOMAIN conn, ok \in BOOLEAN : DiscoverSkipped(c, ok)
    \/ \E c \in DOMAIN conn, ok \in BOOLEAN : SearchReturned(c, ok)
    \/ \E c \in DOMAIN conn, ok \in BOOLEAN : SearchFailed(c, ok)
    \/ \E c \in DOMAIN conn, ok \in BOOLEAN : FetchReturned(c, ok)
    \/ \E c \in DOMAIN conn, ok \in BOOLEAN : FetchFailed(c, ok)
    \/ \E c \in DOMAIN conn, how \in {"returned", "raised"} : RunEnded(c, how)
    \/ \E r \in Reqs, sid \in SessionIds, m \in Messages : Announce(r, sid, m)
    \/ \E r \in Reqs, sid \in SessionIds, g \in 1..Len(Greetings) : Wake(r, sid, g)
    \/ \E r \in Reqs, sid \in SessionIds, t \in ToolNames, m \in ReloadMessages :
          ReloadTools(r, sid, t, m)
    \/ \E r \in Reqs : Health(r)
    \/ \E r \in Reqs : Respond(r)
    \/ \E d \in TickDeltas : Tick(d)

Spec == Init /\ [][Next]_vars

-----------------------------------------------------------------------------
(* The reload race: three connections, the clock standing still, no failing  *)
(* remote call, and reload-tools as the only control request.                *)

InitRace == InitFor(1..(MaxConn + 1)) /\ remote = ListingResult(Catalog) /\ calc = NoCalc

NextRace ==
    \/ \E c \in DOMAIN conn : Connect(c)
    \/ \E c \in DOMAIN conn : DiscoverStart(c)
    \/ \E c \in DOMAIN conn : DiscoverSkipped(c, TRUE)
    \/ \E c \in DOMAIN conn : SearchReturned(c, TRUE)
    \/ \E c \in DOMAIN conn : FetchReturned(c, TRUE)
    \/ \E r \in Reqs, sid \in SessionIds, t \in ToolNames, m \in ReloadMessages :
          ReloadTools(r, sid, t, m)
    \/ \E r \in Reqs : Respond(r)

SpecRace == InitRace /\ [][NextRace]_vars

-----------------------------------------------------------------------------
(* One connection against any answer of the n8n server: its discovery pass,  *)
(* its tool handlers and the workflow tools the LLM then calls.              *)

\* a workflow whose name sanitizes to the tool name of Catalog[1]
CollidingWorkflow == [id |-> "3", name |-> <<"m","y","-","w","f">>, description |-> << >>]
\* malformed entries: one without "name", one without "id"
NamelessEntry == [id |-> "4", description |-> <<"N">>]
IdlessEntry == [name |-> <<"n","o"," ","i","d">>]

\* a workflow whose name sanitizes to the name of the built-in tool
ShadowingWorkflow ==
    [id |-> "5", name |-> <<"W","e","b"," ","S","e","a","r","c","h">>, description |-> << >>]

ListingEntries ==
    {Catalog[1], Catalog[2], CollidingWorkflow, NamelessEntry, IdlessEntry, ShadowingWorkflow}
Listings == UNION {[1..n -> ListingEntries] : n \in 0..MaxListing}

\* parse_mcp_result of the search_workflows answer: the {"data": [...]} object,
\* an object without "data", a bare JSON list, or raw text that is no JSON
ParsedAnswers ==
    {ListingResult(l) : l \in Listings}
        \cup {[kind |-> "object_without_data", data |-> None],
              [kind |-> "list", data |-> <<Catalog[2]>>],
              [kind |-> "text", data |-> None]}

InitPass == InitFor({1}) /\ remote \in ParsedAnswers /\ calc = NoCalc

NextPass ==
    \/ \E c \in DOMAIN conn : Connect(c)
    \/ \E c \in DOMAIN conn : DiscoverStart(c)
    \/ \E c \in DOMAIN conn, ok \in BOOLEAN : DiscoverSkipped(c, ok)
    \/ \E c \in DOMAIN conn, ok \in BOOLEAN : SearchReturned(c, ok)
    \/ \E c \in DOMAIN conn, ok \in BOOLEAN : SearchFailed(c, ok)
    \/ \E c \in DOMAIN conn, ok \in BOOLEAN : FetchReturned(c, ok)
    \/ \E c \in DOMAIN conn, ok \in BOOLEAN : FetchFailed(c, ok)
    \/ \E c \in DOMAIN conn : \E t \in DOMAIN conn[c].handlers, a \in ToolArguments :
          InvokeTool(c, t, a)
    \/ \E c \in DOMAIN conn, o \in PostOutcomes : PostReturned(c, o)
    \/ \E c \in DOMAIN conn, q \in Queries : InvokeWebSearch(c, q)
    \/ \E c \in DOMAIN conn, w \in SearchWorlds : WebSearchReturned(c, w)
    \/ \E c \in DOMAIN conn, how \in {"returned", "raised"} : RunEnded(c, how)

SpecPass == InitPass /\ [][NextPass]_vars

-----------------------------------------------------------------------------
(* The control plane of a process without n8n (settings.n8n_mcp_url unset):  *)
(* load_tools runs no discovery pass, sessions come and go, and requests     *)
(* arrive at any moment.                                                     *)

NextControl ==
    \/ \E c \in DOMAIN conn : Connect(c)
    \/ \E c \in DOMAIN conn, ok \in BOOLEAN : DiscoverSkipped(c, ok)
    \/ \E c \in DOMAIN conn, how \in {"returned", "raised"} : RunEnded(c, how)
    \/ \E r \in Reqs, sid \in SessionIds, m \in Messages : Announce(r, sid, m)
    \/ \E r \in Reqs, sid \in SessionIds, g \in 1..Len(Greetings) : Wake(r, sid, g)
    \/ \E r \in Reqs, sid \in SessionIds, t \in ToolNames, m \in ReloadMessages :
          ReloadTools(r, sid, t, m)
    \/ \E r \in Reqs : Health(r)
    \/ \E r \in Reqs : Respond(r)

SpecControl == Init /\ [][NextControl]_vars

-----------------------------------------------------------------------------
(* The registry alone, under any sequence of register / unregister calls *)

RegistryIds == {UnknownId} \cup {PcId(c) : c \in Conns}
RegistryTasks == {TaskOf(c) : c \in Conns}

CallRegister(id, task) ==
    /\ Len(hist) < MaxOps
    /\ sessions' = RegisterSession(sessions, id, task)
    /\ hist' = Append(hist, [op |-> "register", id |-> id, task |-> task])
    /\ UNCHANGED <<calc, frames, conn, req, cache, cacheTimestamp, now, staleIds, coldDue, warm,
                   remote, workflowNameMap>>

CallUnregister(id) ==
    /\ Len(hist) < MaxOps
    /\ sessions' = UnregisterSession(sessions, id)
    /\ hist' = Append(hist, [op |-> "unregister", id |-> id, task |-> None])
    /\ UNCHANGED <<calc, frames, conn, req, cache, cacheTimestamp, now, staleIds, coldDue, warm,
                   remote, workflowNameMap>>

NextRegistry ==
    \/ \E id \in RegistryIds, task \in RegistryTasks : CallRegister(id, task)
    \/ \E id \in RegistryIds : CallUnregister(id)

SpecRegistry == Init /\ [][NextRegistry]_vars

(* The registry under register / unregister calls with control requests
   arriving between them *)

NextRegistryControl ==
    \/ \E id \in RegistryIds, task \in RegistryTasks : CallRegister(id, task)
    \/ \E id \in RegistryIds : CallUnregister(id)
    \/ \E r \in Reqs, sid \in SessionIds, m \in Messages : Announce(r, sid, m)
    \/ \E r \in Reqs, sid \in SessionIds, g \in 1..Len(Greetings) : Wake(r, sid, g)
    \/ \E r \in Reqs, sid \in SessionIds, t \in ToolNames, m \in ReloadMessages :
          ReloadTools(r, sid, t, m)
    \/ \E r \in Reqs : Health(r)
    \/ \E r \in Reqs : Respond(r)

SpecRegistryControl == Init /\ [][NextRegistryControl]_vars

-----------------------------------------------------------------------------
(* The text-to-speech service of one pipeline (chatterbox.py): run_tts is
   called by the running pipeline, cleanup by its teardown, one call of each
   at a time; both suspend, and each may run while the other is suspended *)

MaxHttpSessions == 3    \* aiohttp sessions one service creates during a run

SpokenTexts == {<<" ">>, <<"H", "i">>}

\* what self._session.closed can read as: a session whose close() is under
\* way may read either way
ClosedReadings(t) ==
    IF t.session \in t.open THEN {FALSE}
    ELSE IF t.session \in t.closing THEN {FALSE, TRUE}
    ELSE {TRUE}

\* _ensure_session: a session is created when there is none or it is closed
EnsureSession(t, closed) ==
    IF t.session = NoHttpSession \/ closed
    THEN [t EXCEPT !.session = t.created + 1, !.created = t.created + 1,
                   !.open = @ \cup {t.created + 1}]
    ELSE t

\* run_tts up to its first suspension: blank text returns at once, any other
\* text gets the session and is POSTed
RunTts(c, text, closed) ==
    /\ conn[c].pc = "running"
    /\ conn[c].tts.speak = "idle"
    /\ closed \in ClosedReadings(conn[c].tts)
    /\ EnsureSession(conn[c].tts, closed).created <= MaxHttpSessions
    /\ conn' = [conn EXCEPT ![c].tts =
                  IF Strip(text) = << >>
                  THEN [@ EXCEPT !.last = "run_tts returned", !.yielded = "none"]
                  ELSE LET t == EnsureSession(@, closed) IN
                       [t EXCEPT !.speak = "post", !.using = t.session, !.yielded = "none",
                                 !.last = "run_tts posted"]]
    /\ UNCHANGED <<sessions, frames, req, cache, cacheTimestamp, now, staleIds, coldDue, warm, hist, calc,
                   remote, workflowNameMap>>

\* the POST ended: audio frames, an ErrorFrame (status not 200, ClientError),
\* or an exception that is no ClientError
RunTtsEnds(c, outcome) ==
    /\ conn[c].pc = "running"
    /\ conn[c].tts.speak = "post"
    /\ conn' = [conn EXCEPT ![c].tts =
                  [@ EXCEPT !.speak = "idle", !.yielded = outcome, !.last = "run_tts returned"]]
    /\ UNCHANGED <<sessions, frames, req, cache, cacheTimestamp, now, staleIds, coldDue, warm, hist, calc,
                   remote, workflowNameMap>>

\* mutant: the attribute is left as it is after the close
SessionAfterCloseKept(session) == session

\* self._session = None
SessionAfterClose(session) == NoHttpSession

\* cleanup up to its await: without a session, or with a closed one, it
\* returns at once; else close() is called on the session
CleanupStarts(c) ==
    /\ conn[c].pc = "running"
    /\ conn[c].tts.cleanup = "idle"
    /\ conn' = [conn EXCEPT ![c].tts =
                  IF @.session # NoHttpSession /\ @.session \in @.open
                  THEN [@ EXCEPT !.cleanup = "close", !.open = @ \ {conn[c].tts.session},
                                 !.closing = @ \cup {conn[c].tts.session},
                                 !.last = "cleanup closing"]
                  ELSE [@ EXCEPT !.last = "cleanup returned"]]
    /\ UNCHANGED <<sessions, frames, req, cache, cacheTimestamp, now, staleIds, coldDue, warm, hist, calc,
                   remote, workflowNameMap>>

\* close() returned: the attribute is reset, whatever it holds by now
CleanupEnds(c) ==
    /\ conn[c].pc = "running"
    /\ conn[c].tts.cleanup = "close"
    /\ conn' = [conn EXCEPT ![c].tts =
                  [@ EXCEPT !.cleanup = "idle", !.closing = {},
                            !.session = SessionAfterClose(@),
                            !.last = "cleanup returned"]]
    /\ UNCHANGED <<sessions, frames, req, cache, cacheTimestamp, now, staleIds, coldDue, warm, hist, calc,
                   remote, workflowNameMap>>

InitTts == InitFor({1}) /\ remote = ListingResult(<< >>) /\ calc = NoCalc

NextTts ==
    \/ \E c \in DOMAIN conn : Connect(c)
    \/ \E c \in DOMAIN conn, ok \in BOOLEAN : DiscoverSkipped(c, ok)
    \/ \E c \in DOMAIN conn, text \in SpokenTexts, closed \in BOOLEAN : RunTts(c, text, closed)
    \/ \E c \in DOMAIN conn, o \in {"audio", "error frame", "raised"} : RunTtsEnds(c, o)
    \/ \E c \in DOMAIN conn : CleanupStarts(c)
    \/ \E c \in DOMAIN conn : CleanupEnds(c)
    \/ \E c \in DOMAIN conn, how \in {"returned", "raised"} : RunEnded(c, how)

SpecTts == InitTts /\ [][NextTts]_vars

-----------------------------------------------------------------------------
(* Functions called on their own: the argument is drawn when the call is made,
   the function's code runs in one step and leaves its result in calc.out *)

MaxNameLen == 3     \* characters in a workflow name given to sanitize_tool_name
MaxNodes == 2       \* nodes in a workflow detail given to extract_webhook_description
MaxEntries == 2     \* entries in the "servers" list of mcp_servers.json

Call(fn, arg) == [fn |-> fn, stage |-> "called", arg |-> arg, out |-> None, again |-> None]

Returns(fn, result) ==
    /\ calc.fn = fn
    /\ calc.stage = "called"
    /\ calc' = [calc EXCEPT !.stage = "returned", !.out = result]
    /\ UNCHANGED <<sessions, frames, conn, req, cache, cacheTimestamp, now, staleIds, coldDue, warm,
                   hist, remote, workflowNameMap>>

(* sanitize_tool_name (n8n.py) *)

\* an uppercase and a lowercase letter, the two characters replaced, an
\* underscore, a digit, punctuation, and the letter that lower-cases to two
Names ==
    UNION {[1..n -> {"A", "b", " ", "-", "_", "7", ".", DottedCapitalI}] : n \in 0..MaxNameLen}
SanitizeCalls == {Call("sanitize_tool_name", name) : name \in Names}

SanitizeReturns == Returns("sanitize_tool_name", SanitizeToolName(calc.arg))

\* the function applied to its own result
SanitizeAgain ==
    /\ calc.fn = "sanitize_tool_name"
    /\ calc.stage = "returned"
    /\ calc' = [calc EXCEPT !.stage = "reapplied", !.again = SanitizeToolName(calc.out)]
    /\ UNCHANGED <<sessions, frames, conn, req, cache, cacheTimestamp, now, staleIds, coldDue, warm,
                   hist, remote, workflowNameMap>>

(* extract_webhook_description (n8n.py) *)

\* a missing notes or description key reads as ""
Nodes ==
    [type : {WebhookNodeType, "n8n-nodes-base.set"},
     notes : {<< >>, <<" ">>, <<" ", "N">>, <<"n">>},
     description : {<< >>, <<"D", " ">>}]
NodeLists == UNION {[1..n -> Nodes] : n \in 0..MaxNodes}
Details == {[workflow |-> [nodes |-> nodes]] : nodes \in NodeLists}
ExtractCalls == {Call("extract_webhook_description", details) : details \in Details}

ExtractReturns == Returns("extract_webhook_description", ExtractWebhookDescription(calc.arg))

(* one iteration of the for-loop of discover_n8n_workflows (n8n.py): the tool
   built for a listed workflow from what get_workflow_details gave *)

\* the root description is missing, empty, blank or a text; it is used as it
\* is, not trimmed
ListedWorkflows ==
    {[id |-> "1", name |-> <<"M", "y", " ", "W", "f">>]}
    \cup {[id |-> "1", name |-> <<"M", "y", " ", "W", "f">>, description |-> d] :
            d \in {<< >>, <<" ">>, <<"R">>}}

\* the try block of the iteration: a failed fetch leaves description = ""
DescriptionFromDetails(fetch, details) ==
    IF fetch = "ok" THEN ExtractWebhookDescription(details) ELSE << >>

\* get_workflow_details answers with a detail, or raises and gives none
IterationCalls ==
    {Call("discover_n8n_workflows.iteration", [workflow |-> w, fetch |-> "ok", details |-> d]) :
        w \in ListedWorkflows, d \in Details}
    \cup {Call("discover_n8n_workflows.iteration",
                [workflow |-> w, fetch |-> "failed", details |-> None]) : w \in ListedWorkflows}

IterationReturns ==
    Returns("discover_n8n_workflows.iteration",
            ToolFor(calc.arg.workflow, DescriptionFromDetails(calc.arg.fetch, calc.arg.details)))

(* WebSearchTool.search called on its own *)

SearchCalls == {Call("WebSearchTool.search", w) : w \in SearchWorlds}

SearchReturns == Returns("WebSearchTool.search", WebSearch(calc.arg))

(* load_mcp_config (mcp.py) *)

\* an environment variable or a JSON key that is not set, or set to ""
Unset == ""

\* an entry of "servers": a JSON object, or a JSON value that is not one
Entries ==
    [kind : {"object"}, name : {Unset, "files", "git"}, url : {Unset, "http://mcp:1/sse"}]
    \cup {[kind |-> "text"]}

\* N8N_MCP_URL, N8N_MCP_TOKEN, N8N_MCP_TIMEOUT, and mcp_servers.json
ConfigWorlds ==
    [url : {Unset, "http://n8n:5678/mcp-server/http"}, token : {Unset, "secret"},
     timeout : {"unset", "number", "text"},
     file : {"absent", "unparsable", "not an object", "parsed"},
     entries : UNION {[1..n -> Entries] : n \in 0..MaxEntries}]

ServerConfig(name, url, token) == [name |-> name, url |-> url, auth_token |-> token]

\* the n8n server from the environment
EnvServers(w) ==
    IF w.url # Unset THEN <<ServerConfig("n8n", w.url, w.token)>> ELSE << >>

\* the loop over data["servers"]: an entry without name or url is skipped, an
\* entry that is not an object raises into the except around the loop
RECURSIVE ServersFrom(_)

\* mutant: break instead of continue, an entry without name or url ends the loop
ServersFromStopping(entries) ==
    IF entries = << >> THEN << >>
    ELSE LET server == Head(entries) IN
         IF server.kind # "object" THEN << >>
         ELSE IF server.name = Unset \/ server.url = Unset THEN << >>
         ELSE <<ServerConfig(server.name, server.url, Unset)>> \o ServersFrom(Tail(entries))

ServersFrom(entries) ==
    IF entries = << >> THEN << >>
    ELSE LET server == Head(entries) IN
         IF server.kind # "object" THEN << >>
         ELSE IF server.name = Unset \/ server.url = Unset THEN ServersFrom(Tail(entries))
         ELSE <<ServerConfig(server.name, server.url, Unset)>> \o ServersFrom(Tail(entries))

\* the servers the JSON file adds
FileServers(w) == IF w.file = "parsed" THEN ServersFrom(w.entries) ELSE << >>

\* float(os.environ.get("N8N_MCP_TIMEOUT", "10.0")) raises ValueError on text
LoadMcpConfig(w) ==
    IF w.url # Unset /\ w.timeout = "text" THEN Raise("ValueError")
    ELSE Return(EnvServers(w) \o FileServers(w))

ConfigCalls == {Call("load_mcp_config", w) : w \in ConfigWorlds}

LoadReturns == Returns("load_mcp_config", LoadMcpConfig(calc.arg))

InitCalls ==
    /\ InitFor({})
    /\ remote = ListingResult(<< >>)
    /\ calc \in SanitizeCalls \cup ExtractCalls \cup IterationCalls \cup SearchCalls
                \cup ConfigCalls

NextCalls ==
    \/ SanitizeReturns
    \/ SanitizeAgain
    \/ ExtractReturns
    \/ IterationReturns
    \/ SearchReturns
    \/ LoadReturns

SpecCalls == InitCalls /\ [][NextCalls]_vars

-----------------------------------------------------------------------------
(* Properties *)

Registered(s, id) == \E i \in 1..Len(s) : s[i].id = id
Running == {c \in DOMAIN conn : conn[c].pc = "running"}
CachedIds == DOMAIN cache
SeqRange(q) == {q[i] : i \in 1..Len(q)}

\* C1: once on_connection has ended, whether runner.run returned or raised,
\* its session id is not in the registry.
C1_RemovedOnEveryExit ==
    \A c \in DOMAIN conn : conn[c].pc = "done" => ~Registered(sessions, PcId(c))

\* witness of C1: a connection was registered, runner.run raised, and it is gone
C1_Witness ==
    \E c \in DOMAIN conn :
        conn[c].pc = "done" /\ conn[c].exit = "raised" /\ ~Registered(sessions, PcId(c))

\* C2: per connection, the registry membership of its id moves only
\* absent -> registered (when its setup ends and run starts) and
\* registered -> absent (when its run ends); it is registered exactly while
\* the connection runs, and an ended connection is never registered again.
C2_Step ==
    \A c \in DOMAIN conn :
        LET was == Registered(sessions, PcId(c))
            is == Registered(sessions', PcId(c))
        IN /\ was <=> conn[c].pc = "running"
           /\ is <=> conn'[c].pc = "running"
           /\ (~was /\ is) => conn[c].pc \in {"mcp_init", "search", "fetch"}
           /\ (was /\ ~is) => conn'[c].pc = "done"
           /\ (was /\ is) => GetTask(sessions', PcId(c)) = GetTask(sessions, PcId(c))
           /\ conn[c].pc = "done" => conn'[c].pc = "done"

C2_SessionStateMachine == [][C2_Step]_vars

\* witness of C2: a connection went through absent, registered, absent while
\* another one is registered
C2_Witness ==
    \E c, d \in DOMAIN conn :
        /\ conn[c].pc = "done" /\ conn[c].exit = "returned"
        /\ ~Registered(sessions, PcId(c))
        /\ conn[d].pc = "running" /\ Registered(sessions, PcId(d))

ControlOps == {"announce", "wake", "reload"}

\* request r is handled in this step (its handler runs up to its first await)
Handled(r) == req[r].pc = "idle" /\ req'[r].pc # "idle"

\* C3: announce, wake and reload-tools for an id that is not registered answer
\* 404, at once, and inject no speak event into any session.
C3_Step ==
    \A r \in DOMAIN req :
        (Handled(r) /\ req'[r].op \in ControlOps /\ ~Registered(sessions, req'[r].sid))
            => /\ req'[r].resp.code = 404
               /\ req'[r].pc = "done"
               /\ frames' = frames

C3_UnknownSessionNotFound == [][C3_Step]_vars

\* witness of C3: a wake for an unknown id was answered 404 while another
\* session is registered, and nothing was injected
C3_Witness ==
    \E r \in DOMAIN req :
        /\ req[r].pc = "done" /\ req[r].op = "wake" /\ req[r].resp.code = 404
        /\ sessions # << >>
        /\ \A c \in DOMAIN frames : frames[c] = << >>

\* C4: a reload-tools for an id that is not registered answers 404 and leaves
\* the cached details and the cache timestamp as they were.
C4_Step ==
    \A r \in DOMAIN req :
        (Handled(r) /\ req'[r].op = "reload" /\ ~Registered(sessions, req'[r].sid))
            => /\ req'[r].resp.code = 404
               /\ cache' = cache
               /\ cacheTimestamp' = cacheTimestamp

C4_FailedReloadKeepsCache == [][C4_Step]_vars

\* witness of C4: a reload was refused while the cache holds entries
C4_Witness ==
    \E r \in DOMAIN req :
        /\ req[r].pc = "done" /\ req[r].op = "reload" /\ req[r].resp.code = 404
        /\ CachedIds # {} /\ cacheTimestamp # 0

\* the task bound by the last call of the log that names id, None when that
\* call is an unregister or no call names id
RECURSIVE LastBinding(_, _)
LastBinding(h, id) ==
    IF h = << >> THEN None
    ELSE LET e == h[Len(h)] IN
         IF e.id = id THEN (IF e.op = "register" THEN e.task ELSE None)
         ELSE LastBinding(SubSeq(h, 1, Len(h) - 1), id)

\* C5: after any sequence of register / unregister calls, the lookup of an id
\* gives the task of its most recent register that no unregister followed,
\* and None otherwise.
C5_LookupLastRegistered ==
    \A id \in RegistryIds : GetTask(sessions, id) = LastBinding(hist, id)

\* witness of C5: an id registered twice with different tasks, and an id
\* unregistered after its registration
C5_Witness ==
    /\ Len(hist) = 3
    /\ hist[1].op = "register" /\ hist[2].op = "register" /\ hist[3].op = "unregister"
    /\ hist[1].id = hist[2].id /\ hist[1].task # hist[2].task
    /\ hist[3].id # hist[1].id
    /\ GetTask(sessions, hist[1].id) = hist[2].task

\* C6: whatever the interleaving of the connections' setups, the registry
\* lists exactly the ids of the connections that have registered and not
\* ended, each once and each bound to its own task.
C6_ConcurrentRegistration ==
    /\ SeqRange(ListSessions(sessions)) = {PcId(c) : c \in Running}
    /\ Len(ListSessions(sessions)) = Cardinality(Running)
    /\ \A c \in Running : GetTask(sessions, PcId(c)) = TaskOf(c)

\* witness of C6: two connections both registered, the one that connected
\* later having registered first
C6_Witness ==
    /\ Cardinality(Running) >= 2
    /\ \E c, d \in Running : c < d /\ ListSessions(sessions) = <<PcId(d), PcId(c)>>

\* connection c starts its discovery pass in this step
PassStarts(c) == conn[c].pc = "mcp_init" /\ conn'[c].pc = "search"

\* C7: the TTL check at the start of a pass: past the TTL the whole cache is
\* cleared and the timestamp set to now, before the pass has made a remote
\* call; otherwise the cache and the timestamp stay as they are.
C7_Step ==
    \A c \in DOMAIN conn :
        PassStarts(c) =>
            /\ conn[c].fetched = {} /\ conn'[c].fetched = {}
            /\ IF now - cacheTimestamp > CacheTtlSeconds
               THEN DOMAIN cache' = {} /\ cacheTimestamp' = now
               ELSE cache' = cache /\ cacheTimestamp' = cacheTimestamp

C7_TtlCheck == [][C7_Step]_vars

\* witness of C7: a pass has started exactly one TTL after the last clear and
\* found the cache kept
C7_Witness ==
    \E c \in DOMAIN conn :
        /\ conn[c].pc = "search"
        /\ now - cacheTimestamp = CacheTtlSeconds
        /\ CachedIds # {}

\* C8: after a reload, the next pass to start serves no detail fetched before
\* the reload and fetches the detail of every listed workflow.
C8_NextPassCold ==
    \A c \in DOMAIN conn :
        conn[c].cold =>
            /\ ~conn[c].usedStale
            /\ (conn[c].pc = "running" /\ Len(conn[c].tools) = Len(Catalog))
                   => conn[c].fetched = WorkflowIds

\* C9: the step in which reload_tools calls clear_caches leaves no cache entry
\* and the timestamp 0.
C9_Step ==
    \A r \in DOMAIN req :
        (Handled(r) /\ req'[r].op = "reload" /\ req'[r].resp.code = 200)
            => /\ \A id \in WorkflowIds : id \notin DOMAIN cache'
               /\ cacheTimestamp' = 0

C9_ClearCaches == [][C9_Step]_vars

\* witness of C9: the caches were cleared by a reload in the very second in
\* which a running session's pass had cleared and filled them
C9_Witness ==
    /\ \E r \in DOMAIN req : req[r].op = "reload" /\ req[r].resp.code = 200
    /\ CachedIds = {} /\ cacheTimestamp = 0
    /\ now = StartTime
    /\ \E c \in Running : conn[c].fetched = WorkflowIds

\* C10: no step removes some but not all of the cache entries.
C10_Step == DOMAIN cache' = {} \/ DOMAIN cache \subseteq DOMAIN cache'

C10_EvictedEnMasse == [][C10_Step]_vars

\* witness of C10: the cache is empty although a running session got the
\* webhook notes of workflow "1" from it, and no reload was made
C10_Witness ==
    /\ CachedIds = {}
    /\ \A r \in DOMAIN req : req[r].op # "reload"
    /\ \E c \in Running :
          /\ Len(conn[c].tools) = Len(Catalog)
          /\ conn[c].tools[1].description = ExtractWebhookDescription(RemoteDetails("1"))

-----------------------------------------------------------------------------
(* Properties of the discovery pass and of the tool handlers *)

\* the connections whose setup has ended and whose pipeline runs
Live == {c \in DOMAIN conn : conn[c].pc \in {"running", "tool"}}

\* the search_workflows call gave no listing: it raised, or answered something
\* that is not an object with a data list
NoListing(c) ==
    \/ conn[c].search = "raised"
    \/ conn[c].search = "returned" /\ remote.kind # "object"

\* C11: when search_workflows raises or answers something that is no object
\* with a data list, the pass returns no tool and an empty name map, and the
\* setup goes on: the session is registered and runs with web_search alone.
C11_DiscoveryNeverFatal ==
    \A c \in Live :
        NoListing(c) =>
            /\ conn[c].tools = << >>
            /\ DOMAIN conn[c].nameMap = {}
            /\ DOMAIN workflowNameMap = {}
            /\ DOMAIN conn[c].handlers = {WebSearchName}
            /\ Registered(sessions, PcId(c))

\* witness of C11: the server answered a bare JSON list and the session runs
\* without workflow tools
C11_Witness ==
    \E c \in Live :
        /\ conn[c].search = "returned" /\ remote.kind = "list"
        /\ conn[c].tools = << >>
        /\ Registered(sessions, PcId(c))

\* the entries a pass goes through: those before the first malformed one
RECURSIVE ProcessedCount(_)
ProcessedCount(listing) ==
    IF listing = << >> \/ ~WellFormed(Head(listing)) THEN 0
    ELSE 1 + ProcessedCount(Tail(listing))

\* the text a tool gets when its details give none
ExpectedFallback(workflow) ==
    IF "description" \in DOMAIN workflow /\ workflow.description # << >>
    THEN workflow.description
    ELSE <<"E","x","e","c","u","t","e"," ">> \o SanitizeToolName(workflow.name)
             \o <<" ","w","o","r","k","f","l","o","w">>

\* the description a listed workflow gets when its detail is fetched
ExpectedDescription(workflow) ==
    LET noted == ExtractWebhookDescription(RemoteDetails(workflow.id)) IN
    IF noted # << >> THEN noted ELSE ExpectedFallback(workflow)

\* C12: a failed detail fetch changes the tool of that workflow alone, whose
\* description becomes the fallback text; every other workflow, before and
\* after it, has the tool it has when no fetch fails.
C12_DetailFailureIsLocal ==
    \A c \in Live :
        conn[c].search = "returned" =>
            /\ Len(conn[c].tools) = ProcessedCount(Workflows)
            /\ \A i \in 1..Len(conn[c].tools) :
                  /\ conn[c].tools[i].name = SanitizeToolName(Workflows[i].name)
                  /\ conn[c].tools[i].description =
                        IF i \in conn[c].failed THEN ExpectedFallback(Workflows[i])
                        ELSE ExpectedDescription(Workflows[i])

\* witness of C12: the fetch of the first of two workflows failed, the first
\* tool has the generic text and the second its own description
C12_Witness ==
    \E c \in Live :
        /\ conn[c].failed = {1}
        /\ Len(conn[c].tools) = 2
        /\ conn[c].tools[1].description =
              <<"E","x","e","c","u","t","e"," ","m","y","_","w","f"," ",
                "w","o","r","k","f","l","o","w">>
        /\ conn[c].tools[2].description = <<"F","e","t","c","h">>

\* C13: with a malformed entry in the listing, every well-formed entry, also
\* one listed after it, has its tool and its name-map binding.
C13_MalformedEntrySkipped ==
    \A c \in Live :
        conn[c].search = "returned" =>
            \A i \in 1..Len(Workflows) :
                WellFormed(Workflows[i]) =>
                    /\ \E j \in 1..Len(conn[c].tools) :
                          conn[c].tools[j].name = SanitizeToolName(Workflows[i].name)
                    /\ SanitizeToolName(Workflows[i].name) \in DOMAIN conn[c].nameMap

AllWellFormed(listing) == \A i \in 1..Len(listing) : WellFormed(listing[i])

DistinctToolNames(listing) ==
    \A i, j \in 1..Len(listing) :
        i # j => SanitizeToolName(listing[i].name) # SanitizeToolName(listing[j].name)

\* the listing index of the last workflow whose name sanitizes as that of i
LastSameToolName(listing, i) ==
    CHOOSE j \in i..Len(listing) :
        /\ SanitizeToolName(listing[j].name) = SanitizeToolName(listing[i].name)
        /\ \A k \in (j + 1)..Len(listing) :
              SanitizeToolName(listing[k].name) # SanitizeToolName(listing[i].name)

\* C14 as stated: n well-formed workflows give n tools in listing order, the
\* i-th named sanitize(name_i), and the name map binds every sanitize(name_i)
\* to name_i; with pairwise distinct sanitized names the map has n entries.
C14_MapBindsEveryName ==
    \A c \in Live :
        (conn[c].search = "returned" /\ AllWellFormed(Workflows)) =>
            /\ Len(conn[c].tools) = Len(Workflows)
            /\ \A i \in 1..Len(Workflows) :
                  /\ conn[c].tools[i].name = SanitizeToolName(Workflows[i].name)
                  /\ SanitizeToolName(Workflows[i].name) \in DOMAIN conn[c].nameMap
                  /\ conn[c].nameMap[SanitizeToolName(Workflows[i].name)] = Workflows[i].name
            /\ DistinctToolNames(Workflows) =>
                  Cardinality(DOMAIN conn[c].nameMap) = Len(Workflows)

\* C14 amended: n well-formed workflows give n tools in listing order, the
\* i-th named sanitize(name_i); the name map has exactly the sanitized names
\* as keys and binds sanitize(name_i) to the name of the last listed workflow
\* that sanitizes to it, which is name_i when the sanitized names are pairwise
\* distinct, the map then having n entries.
C14_MapBindsLastName ==
    \A c \in Live :
        (conn[c].search = "returned" /\ AllWellFormed(Workflows)) =>
            /\ Len(conn[c].tools) = Len(Workflows)
            /\ DOMAIN conn[c].nameMap =
                  {SanitizeToolName(Workflows[i].name) : i \in 1..Len(Workflows)}
            /\ \A i \in 1..Len(Workflows) :
                  /\ conn[c].tools[i].name = SanitizeToolName(Workflows[i].name)
                  /\ conn[c].nameMap[SanitizeToolName(Workflows[i].name)] =
                        Workflows[LastSameToolName(Workflows, i)].name
                  /\ DistinctToolNames(Workflows) =>
                        conn[c].nameMap[SanitizeToolName(Workflows[i].name)] = Workflows[i].name
            /\ DistinctToolNames(Workflows) =>
                  Cardinality(DOMAIN conn[c].nameMap) = Len(Workflows)

\* witness of C14: "My Wf" then "my-wf" were listed: two tools named my_wf,
\* one name-map entry, bound to "my-wf"
C14_Witness ==
    \E c \in Live :
        /\ conn[c].search = "returned"
        /\ Workflows = <<Catalog[1], CollidingWorkflow>>
        /\ Len(conn[c].tools) = 2
        /\ conn[c].tools[1].name = conn[c].tools[2].name
        /\ Cardinality(DOMAIN conn[c].nameMap) = 1
        /\ conn[c].nameMap[<<"m","y","_","w","f">>] = <<"m","y","-","w","f">>

\* two workflows the pass went through, i listed before j, with distinct names
\* and the same tool name, j being the last one with that tool name
Collide(i, j) ==
    /\ i < j /\ j <= ProcessedCount(Workflows)
    /\ Workflows[i].name # Workflows[j].name
    /\ SanitizeToolName(Workflows[i].name) = SanitizeToolName(Workflows[j].name)
    /\ LastSameToolName(SubSeq(Workflows, 1, ProcessedCount(Workflows)), j) = j

\* C15: when two workflows of a pass have distinct names and the same tool
\* name, the name map binds the tool name to the name of the later one, the
\* handler registered under it is bound to the later one, and a call of the
\* tool POSTs to the webhook of the later one.
C15_LastWriteWins ==
    \A c \in Live :
        conn[c].search = "returned" =>
            \A i, j \in 1..Len(Workflows) :
                Collide(i, j) =>
                    LET t == SanitizeToolName(Workflows[j].name) IN
                    /\ conn[c].nameMap[t] = Workflows[j].name
                    /\ workflowNameMap[t] = Workflows[j].name
                    /\ conn[c].handlers[t].kind = "workflow"
                    /\ conn[c].handlers[t].wf_name = Workflows[j].name
                    /\ (conn[c].call # None /\ conn[c].call.tool = t) =>
                          conn[c].call.url = <<N8nBase, "/webhook/", Workflows[j].name>>

\* witness of C15: "My Wf" then "my-wf" were listed and the call of my_wf was
\* POSTed to the webhook of "my-wf"
C15_Witness ==
    \E c \in Live :
        /\ Workflows = <<Catalog[1], CollidingWorkflow>>
        /\ conn[c].call # None
        /\ conn[c].call.tool = <<"m","y","_","w","f">>
        /\ conn[c].call.url = <<N8nBase, "/webhook/", <<"m","y","-","w","f">>>>

\* C16: the handlers registered are web_search and exactly one per tool name
\* of the name map; the handler of tool name T is bound to the workflow the
\* map gives for T, and a call of T POSTs the arguments to its webhook.
C16_OneHandlerPerTool ==
    \A c \in Live :
        /\ DOMAIN conn[c].handlers = DOMAIN workflowNameMap \cup {WebSearchName}
        /\ \A t \in DOMAIN workflowNameMap :
              /\ conn[c].handlers[t].kind = "workflow"
              /\ conn[c].handlers[t].wf_name = workflowNameMap[t]
        /\ conn[c].call # None =>
              /\ conn[c].call.tool \in DOMAIN workflowNameMap
              /\ conn[c].call.url =
                    <<N8nBase, "/webhook/", workflowNameMap[conn[c].call.tool]>>
              /\ conn[c].call.json \in ToolArguments

\* witness of C16: two workflows registered in one pass, and each of the two
\* tools can be the one whose call went to its own webhook
C16_Witness ==
    \E c \in Live :
        /\ Workflows = Catalog
        /\ Cardinality(DOMAIN workflowNameMap) = 2
        /\ conn[c].call # None
        /\ conn[c].call.tool = <<"g","e","t","_","d">>
        /\ conn[c].call.url = <<N8nBase, "/webhook/", <<"g","e","t","-","d">>>>
        /\ conn[c].call.outcome = "ok"

\* C17: when the POST of a workflow tool has ended, whatever its outcome, a
\* payload was handed to the result callback - the workflow's JSON result on
\* success, an {error: ...} object otherwise - and the session is registered
\* and running.
C17_ToolFailureIsPayload ==
    \A c \in DOMAIN conn :
        (conn[c].call # None /\ conn[c].call.outcome # "pending") =>
            /\ conn[c].pc = "running"
            /\ Registered(sessions, PcId(c))
            /\ IF conn[c].call.outcome = "ok"
               THEN conn[c].delivered =
                        WorkflowResult(workflowNameMap[conn[c].call.tool])
               ELSE /\ DOMAIN conn[c].delivered = {"error"}
                    /\ conn[c].delivered.error = conn[c].call.outcome

\* witness of C17: the webhook answered a non-2xx status and the session runs
\* on with the error payload delivered
C17_Witness ==
    \E c \in DOMAIN conn :
        /\ conn[c].pc = "running"
        /\ conn[c].call # None /\ conn[c].call.outcome = "bad_status"
        /\ conn[c].delivered = [error |-> "bad_status"]

-----------------------------------------------------------------------------
(* Properties of the control operations on a registered session *)

\* the connection whose task is registered under sid
Holder(sid) == CHOOSE c \in DOMAIN conn : GetTask(sessions, sid) = TaskOf(c)

\* this step queues exactly the frame text into the task registered under sid
\* and nothing into any other task
InjectsOnly(sid, text) ==
    /\ frames'[Holder(sid)] = Append(frames[Holder(sid)], text)
    /\ \A d \in DOMAIN frames : d # Holder(sid) => frames'[d] = frames[d]

\* C18: announce for a registered id answers 200 "announced" with that id and
\* queues exactly one speak frame, carrying the request's message, into the
\* task registered under that id and none into any other task.
C18_Step ==
    \A r \in DOMAIN req :
        (Handled(r) /\ req'[r].op = "announce" /\ Registered(sessions, req'[r].sid)) =>
            /\ req'[r].resp = [code |-> 200, status |-> "announced",
                               session_id |-> req'[r].sid]
            /\ PcId(Holder(req'[r].sid)) = req'[r].sid
            /\ InjectsOnly(req'[r].sid, <<req'[r].body.message>>)

FourGreetings ==
    {"Hey! What can I help you with?", "I'm here. What do you need?",
     "Yes? How can I help?", "What's up?"}

\* a wake for sid, handled now, queues the greeting text
WakeSpeaks(r, sid, text) ==
    \E g \in 1..Len(Greetings) :
        Wake(r, sid, g) /\ frames'[Holder(sid)] = Append(frames[Holder(sid)], <<text>>)

C19_Step ==
    \A r \in DOMAIN req :
        (Handled(r) /\ req'[r].op = "wake" /\ Registered(sessions, req'[r].sid)) =>
            /\ req'[r].resp = [code |-> 200, status |-> "greeted",
                               session_id |-> req'[r].sid]
            /\ PcId(Holder(req'[r].sid)) = req'[r].sid
            /\ \E text \in FourGreetings : InjectsOnly(req'[r].sid, <<text>>)

C19_EachPossible ==
    \A r \in DOMAIN req : \A c \in Running : \A text \in FourGreetings :
        RequestFree(r) => ENABLED WakeSpeaks(r, PcId(c), text)

\* C19: wake for a registered id answers 200 "greeted" with that id and queues
\* exactly one speak frame into the task registered under that id and none
\* into any other task; its text is one of the four greeting phrases, and
\* whenever a wake can be handled each of the four can be the one queued.
C19_WakeGreets == [][C19_Step]_vars /\ []C19_EachPossible

\* witness of C19: two sessions are registered and a wake of one of them has
\* queued the last of the four phrases into its task alone
C19_Witness ==
    \E r \in DOMAIN req : \E c, d \in Running :
        /\ c # d
        /\ req[r].op = "wake" /\ req[r].pc = "done" /\ req[r].resp.code = 200
        /\ req[r].sid = PcId(c)
        /\ frames[c] = << <<"What's up?">> >>
        /\ frames[d] = << >>

\* C20: reload-tools for a registered id answers 200 "reloaded" with that id
\* and a tool_count; the step that handles it leaves the cache without entry
\* and the timestamp at 0, and the announcement (the message, else the
\* sentence naming the tool, else none) is queued no earlier than in that
\* step, into the task registered under that id alone.
C20_Step ==
    \A r \in DOMAIN req :
        (Handled(r) /\ req'[r].op = "reload" /\ Registered(sessions, req'[r].sid)) =>
            /\ req'[r].resp.code = 200
            /\ req'[r].resp.status = "reloaded"
            /\ req'[r].resp.session_id = req'[r].sid
            /\ "tool_count" \in DOMAIN req'[r].resp
            /\ DOMAIN cache' = {}
            /\ cacheTimestamp' = 0
            /\ IF req'[r].body.message # ""
               THEN InjectsOnly(req'[r].sid, <<req'[r].body.message>>)
               ELSE IF req'[r].body.tool_name # ""
               THEN InjectsOnly(req'[r].sid,
                                <<"A new tool called ", req'[r].body.tool_name,
                                  " is now available.">>)
               ELSE frames' = frames

C20_ReloadClearsThenAnnounces == [][C20_Step]_vars

\* witness of C20: a reload naming a tool was answered while the cache held
\* the details of both workflows; the cache is empty and the sentence naming
\* the tool is queued
C20_Witness ==
    \E r \in DOMAIN req : \E c \in Running :
        /\ req[r].op = "reload" /\ req[r].resp.code = 200
        /\ req[r].sid = PcId(c)
        /\ conn[c].fetched = WorkflowIds
        /\ CachedIds = {} /\ cacheTimestamp = 0
        /\ frames[c] = << <<"A new tool called ", "lights", " is now available.">> >>

Sanitized == calc.fn = "sanitize_tool_name" /\ calc.stage \in {"returned", "reapplied"}
UppercaseLetters == SeqRange(UpperChars) \cup {DottedCapitalI}

\* C23: sanitize_tool_name gives a result for every name; the result holds no
\* uppercase letter, no space and no hyphen, and sanitizing the result again
\* gives the result back.
C23_SanitizeIdempotent ==
    /\ (calc.fn = "sanitize_tool_name" /\ calc.stage = "called") => ENABLED SanitizeReturns
    /\ Sanitized =>
          \A i \in 1..Len(calc.out) : calc.out[i] \notin UppercaseLetters \cup {" ", "-"}
    /\ (calc.fn = "sanitize_tool_name" /\ calc.stage = "reapplied") => calc.again = calc.out

\* witness of C23: a name with an uppercase letter, a space and a hyphen was
\* sanitized twice
C23_Witness ==
    /\ calc.fn = "sanitize_tool_name" /\ calc.stage = "reapplied"
    /\ calc.arg = <<"A", " ", "-">>
    /\ calc.out = <<"a", "_", "_">>
    /\ calc.again = calc.out

\* what one character of the name becomes
CharImage(ch) == IF ch \in {" ", "-"} THEN <<"_">> ELSE LowerChar(ch)

RECURSIVE Images(_)
Images(s) == IF s = << >> THEN << >> ELSE CharImage(Head(s)) \o Images(Tail(s))

\* C24 as stated: the result has the length of the name, and at each position
\* the lowercase form of the letter there, an underscore for a space or a
\* hyphen, and any other character itself.
C24_SameLength ==
    (calc.fn = "sanitize_tool_name" /\ calc.stage = "returned") =>
        /\ Len(calc.out) = Len(calc.arg)
        /\ \A i \in 1..Len(calc.arg) : <<calc.out[i]>> = CharImage(calc.arg[i])

\* C24, amended: the result is the name with each character replaced, in
\* place, by the lowercase form of the letter, by an underscore for a space
\* or a hyphen, and by itself otherwise; when every letter of the name has a
\* lowercase form of one character, the result has the length of the name
\* and position i of the result comes from position i of the name.
C24_CharByChar ==
    (calc.fn = "sanitize_tool_name" /\ calc.stage = "returned") =>
        /\ calc.out = Images(calc.arg)
        /\ (\A i \in 1..Len(calc.arg) : Len(LowerChar(calc.arg[i])) = 1) =>
              /\ Len(calc.out) = Len(calc.arg)
              /\ \A i \in 1..Len(calc.arg) : <<calc.out[i]>> = CharImage(calc.arg[i])

\* witness of C24: an uppercase letter, a hyphen and punctuation were mapped
\* in place
C24_Witness ==
    /\ calc.fn = "sanitize_tool_name" /\ calc.stage = "returned"
    /\ calc.arg = <<"A", "-", ".">>
    /\ calc.out = <<"a", "_", ".">>

Extracted == calc.fn = "extract_webhook_description" /\ calc.stage = "returned"
NodesOf(details) == details.workflow.nodes
TriggerNodes(nodes) == SelectSeq(nodes, LAMBDA node : node.type = WebhookNodeType)
FirstNonEmpty(texts) == IF \E i \in 1..Len(texts) : texts[i] # << >>
                        THEN texts[CHOOSE i \in 1..Len(texts) :
                                     texts[i] # << >> /\ \A j \in 1..(i - 1) : texts[j] = << >>]
                        ELSE << >>

\* C25 as stated: the description extracted is decided by the first trigger
\* node alone, its notes trimmed if non-empty, else its description trimmed,
\* else the empty string, whatever later trigger nodes carry.
C25_FirstTriggerNodeOnly ==
    Extracted =>
        LET triggers == TriggerNodes(NodesOf(calc.arg)) IN
        calc.out = IF triggers = << >> THEN << >>
                   ELSE FirstNonEmpty(<<Strip(triggers[1].notes), Strip(triggers[1].description)>>)

\* what a trigger node offers: its notes trimmed if non-empty, else its
\* description trimmed
Offer(node) == FirstNonEmpty(<<Strip(node.notes), Strip(node.description)>>)

\* C25, amended: the description extracted is decided by the first trigger
\* node that has non-empty notes or a non-empty description after trimming:
\* it is that node's notes trimmed if non-empty, else that node's description
\* trimmed; it is the empty string when no trigger node has either; the nodes
\* of another type never contribute.
C25_FirstTriggerNodeWithText ==
    Extracted =>
        LET triggers == TriggerNodes(NodesOf(calc.arg)) IN
        calc.out = FirstNonEmpty([i \in 1..Len(triggers) |-> Offer(triggers[i])])

\* witness of C25: the first trigger node has neither notes nor description,
\* the second one has both, and its notes were extracted
C25_Witness ==
    /\ Extracted
    /\ NodesOf(calc.arg) =
          << [type |-> WebhookNodeType, notes |-> << >>, description |-> << >>],
             [type |-> WebhookNodeType, notes |-> <<" ", "N">>, description |-> <<"D", " ">>] >>
    /\ calc.out = <<"N">>

\* C26 as stated: with several trigger nodes the description extracted is the
\* trimmed notes of the first trigger node whose notes are non-empty, also
\* when an earlier trigger node has a non-empty description.
C26_FirstNotesWin ==
    Extracted =>
        LET triggers == TriggerNodes(NodesOf(calc.arg))
            notes == [i \in 1..Len(triggers) |-> Strip(triggers[i].notes)]
        IN  (Len(triggers) > 1 /\ FirstNonEmpty(notes) # << >>) => calc.out = FirstNonEmpty(notes)

\* C26, amended: with several trigger nodes the description extracted is the
\* trimmed notes of the first trigger node whose notes are non-empty, unless
\* an earlier trigger node has a non-empty description: then it is the
\* trimmed description of the first such node.
C26_FirstNotesUnlessEarlierDescription ==
    Extracted =>
        LET triggers == TriggerNodes(NodesOf(calc.arg))
            notes == [i \in 1..Len(triggers) |-> Strip(triggers[i].notes)]
            k == CHOOSE i \in 1..Len(triggers) :
                    notes[i] # << >> /\ \A j \in 1..(i - 1) : notes[j] = << >>
            earlier == [j \in 1..(k - 1) |-> Strip(triggers[j].description)]
        IN  (Len(triggers) > 1 /\ FirstNonEmpty(notes) # << >>) =>
                calc.out = IF FirstNonEmpty(earlier) # << >> THEN FirstNonEmpty(earlier)
                           ELSE notes[k]

\* witness of C26: of two trigger nodes the first has blank notes and no
\* description, and the notes of the second were extracted
C26_Witness ==
    /\ Extracted
    /\ NodesOf(calc.arg) =
          << [type |-> WebhookNodeType, notes |-> <<" ">>, description |-> << >>],
             [type |-> WebhookNodeType, notes |-> <<"n">>, description |-> <<"D", " ">>] >>
    /\ calc.out = <<"n">>

Built == calc.fn = "discover_n8n_workflows.iteration" /\ calc.stage = "returned"

RECURSIVE NodeTexts(_)
\* the trimmed notes and the trimmed description of each trigger node, in order
NodeTexts(triggers) ==
    IF triggers = << >> THEN << >>
    ELSE <<Strip(Head(triggers).notes), Strip(Head(triggers).description)>>
         \o NodeTexts(Tail(triggers))

\* the chain of C27 for a call of the iteration
Chain(arg) ==
    (IF arg.fetch = "ok" THEN NodeTexts(TriggerNodes(NodesOf(arg.details))) ELSE << >>)
    \o << IF "description" \in DOMAIN arg.workflow THEN arg.workflow.description ELSE << >>,
          <<"E","x","e","c","u","t","e"," ">> \o <<"m","y","_","w","f">>
              \o <<" ","w","o","r","k","f","l","o","w">> >>

\* C27: the description of the tool built for a listed workflow is the first
\* non-empty value of the chain trigger-node notes, trigger-node description
\* (both trimmed, trigger node by trigger node), root description of the
\* listing entry, "Execute {tool_name} workflow"; it is never empty.
C27_FallbackChain ==
    Built =>
        /\ calc.out.description = FirstNonEmpty(Chain(calc.arg))
        /\ calc.out.description # << >>

\* witness of C27: the trigger node has blank notes and no description, the
\* listing entry has no description, and the tool got the generated default
C27_Witness ==
    /\ Built
    /\ calc.arg.fetch = "ok"
    /\ NodesOf(calc.arg.details) =
          << [type |-> WebhookNodeType, notes |-> <<" ">>, description |-> << >>] >>
    /\ "description" \notin DOMAIN calc.arg.workflow
    /\ calc.out.description = <<"E","x","e","c","u","t","e"," ","m","y","_","w","f",
                                " ","w","o","r","k","f","l","o","w">>

Searched == calc.fn = "WebSearchTool.search" /\ calc.stage = "returned"

\* C29: search returns a string whatever its awaited calls do: the apology
\* when the search times out, the trouble sentence when the search or the
\* preparation of the summary raises anything else, the no-results sentence
\* when the result list is empty; no exception reaches the caller.
C29_SearchNeverRaises ==
    /\ (calc.fn = "WebSearchTool.search" /\ calc.stage = "called") => ENABLED SearchReturns
    /\ Searched =>
          /\ calc.out.kind = "return"
          /\ calc.arg.search = "timeout" =>
                calc.out.value = "The search took too long. Please try a simpler query."
          /\ (calc.arg.search = "error"
                \/ (calc.arg.search = "results" /\ calc.arg.format = "raises")) =>
                calc.out.value = "I had trouble searching the web. Please try again."
          /\ calc.arg.search = "empty" =>
                calc.out.value = "I couldn't find any results for that search."

\* witness of C29: the search timed out and the apology was returned
C29_Witness ==
    /\ Searched
    /\ calc.arg.search = "timeout"
    /\ calc.out = [kind |-> "return",
                   value |-> "The search took too long. Please try a simpler query."]

Loaded == calc.fn = "load_mcp_config" /\ calc.stage = "returned"
IsObject(entry) == entry.kind = "object"
Complete(entry) == IsObject(entry) /\ entry.name # "" /\ entry.url # ""

\* C30: load_mcp_config raises only on an N8N_MCP_TIMEOUT that is not a
\* number, never because of the JSON file; otherwise, when N8N_MCP_URL is set,
\* the first server returned is "n8n" with that url and the token; an
\* unparsable file adds nothing; of a file whose entries are all objects, the
\* entries with name and url follow in file order and the others are skipped.
C30_BadEntriesAbsorbed ==
    Loaded =>
        LET w == calc.arg
            fromEnv == IF w.url # "" THEN 1 ELSE 0
        IN  /\ calc.out.kind = "raise" <=> (w.url # "" /\ w.timeout = "text")
            /\ calc.out.kind = "return" =>
                  LET servers == calc.out.value
                      complete == SelectSeq(w.entries, Complete)
                  IN  /\ w.url # "" =>
                            /\ Len(servers) >= 1
                            /\ servers[1].name = "n8n"
                            /\ servers[1].url = w.url
                            /\ servers[1].auth_token = w.token
                      /\ w.file = "unparsable" => Len(servers) = fromEnv
                      /\ (w.file = "parsed" /\ \A i \in 1..Len(w.entries) : IsObject(w.entries[i])) =>
                            /\ Len(servers) = fromEnv + Len(complete)
                            /\ \A i \in 1..Len(complete) :
                                  /\ servers[fromEnv + i].name = complete[i].name
                                  /\ servers[fromEnv + i].url = complete[i].url

\* witness of C30: with the n8n server set in the environment, the file lists
\* an entry without url and then a complete one; n8n and the complete entry
\* were returned
C30_Witness ==
    /\ Loaded
    /\ calc.arg.url # "" /\ calc.arg.file = "parsed"
    /\ calc.arg.entries = << [kind |-> "object", name |-> "files", url |-> ""],
                             [kind |-> "object", name |-> "git", url |-> "http://mcp:1/sse"] >>
    /\ calc.out.kind = "return"
    /\ Len(calc.out.value) = 2
    /\ calc.out.value[1].name = "n8n" /\ calc.out.value[2].name = "git"

\* C21: a control operation decides in the step that handles it, before its
\* first suspension: for an id that is not registered it answers 404 in that
\* step and touches neither frames nor cache; the response decided there is
\* the one returned after the suspension, which changes nothing else; a frame
\* is queued only by such a handling step and only into the task registered
\* under the request's id at that step; a request clears the cache only in
\* the handling step of a reload for a registered id.
C21_Step ==
    /\ \A r \in DOMAIN req :
          (Handled(r) /\ req'[r].op \in ControlOps) =>
              IF Registered(sessions, req'[r].sid)
              THEN req'[r].resp.code = 200
              ELSE /\ req'[r].pc = "done"
                   /\ req'[r].resp.code = 404
                   /\ frames' = frames
                   /\ cache' = cache
                   /\ cacheTimestamp' = cacheTimestamp
    /\ \A r \in DOMAIN req :
          (req[r].pc = "await" /\ req'[r] # req[r]) =>
              /\ req'[r] = [req[r] EXCEPT !.pc = "done"]
              /\ frames' = frames
              /\ cache' = cache
              /\ cacheTimestamp' = cacheTimestamp
    /\ \A c \in DOMAIN frames :
          frames'[c] # frames[c] =>
              /\ Registered(sessions, PcId(c))
              /\ GetTask(sessions, PcId(c)) = TaskOf(c)
              /\ \E r \in DOMAIN req :
                    Handled(r) /\ req'[r].op \in ControlOps /\ req'[r].sid = PcId(c)
    /\ (req' # req /\ cache' # cache) =>
          \E r \in DOMAIN req :
              Handled(r) /\ req'[r].op = "reload" /\ Registered(sessions, req'[r].sid)

C21_LookupBeforeSuspension == [][C21_Step]_vars

\* witness of C21: an announce for a registered id is suspended at
\* queue_frames; its frame is already in the task of that session
C21_Witness ==
    \E r \in DOMAIN req : \E c \in Running :
        /\ req[r].op = "announce" /\ req[r].pc = "await"
        /\ req[r].sid = PcId(c)
        /\ Registered(sessions, PcId(c))
        /\ Len(frames[c]) = 1

C22_Step ==
    \A r \in DOMAIN req :
        (Handled(r) /\ req'[r].op = "health") =>
            /\ req'[r].pc = "done"
            /\ req'[r].resp.code = 200
            /\ req'[r].resp.status = "ok"
            /\ LET ids == req'[r].resp.active_sessions IN
                  /\ \A id \in SessionIds : Registered(sessions, id) <=> id \in SeqRange(ids)
                  /\ SeqRange(ids) = {PcId(c) : c \in {d \in DOMAIN conn : conn[d].pc \in {"running", "tool"}}}
                  /\ \A i, j \in 1..Len(ids) : ids[i] = ids[j] => i = j

C22_AlwaysPossible == \A r \in DOMAIN req : RequestFree(r) => ENABLED Health(r)

\* C22: a health request is answered in the step that handles it, with 200
\* and status "ok"; active_sessions holds each id registered at that step
\* once, these are the ids of the connections whose pipeline is running, and
\* no other id; the request can be handled in every state.
C22_HealthListsRegistered == [][C22_Step]_vars /\ []C22_AlwaysPossible

\* witness of C22: health was answered while two sessions are registered and
\* lists both
C22_Witness ==
    \E r \in DOMAIN req :
        /\ req[r].op = "health" /\ req[r].pc = "done"
        /\ Len(req[r].resp.active_sessions) = 2
        /\ Len(sessions) = 2

\* connection c issues a get_workflow_details call in this step
Issues(c) == conn'[c].pc = "fetch" /\ (conn[c].pc # "fetch" \/ conn'[c].i # conn[c].i)

C28_Step ==
    \A c \in DOMAIN conn :
        /\ Issues(c) =>
              LET previous == IF conn[c].pc = "fetch" THEN conn[c].i ELSE 0 IN
              /\ Workflows[conn'[c].i].id \notin DOMAIN cache'
              /\ conn'[c].fetched = conn[c].fetched \cup {Workflows[conn'[c].i].id}
              /\ \A k \in (previous + 1)..(conn'[c].i - 1) : Workflows[k].id \in DOMAIN cache'
        /\ conn'[c].fetched # conn[c].fetched => (Issues(c) \/ conn'[c].pc = "done")

\* the pass of c started after a pass had gone through without failure, with
\* no TTL clear and no reload since that pass started
FollowsInWindow(c) ==
    /\ conn[c].pc \in {"search", "fetch", "running", "tool"}
    /\ conn[c].follows /\ conn[c].window

C28_FollowerFetchesNothing ==
    \A c \in DOMAIN conn : FollowsInWindow(c) => (conn[c].fetched = {} /\ conn[c].pc # "fetch")

\* C28: a pass issues get_workflow_details only for a listed workflow whose id
\* is not in the cache when the call is made, and serves the others from the
\* cache; a pass started after a pass that went through without failure, with
\* no TTL clear and no reload since that earlier pass started, issues no
\* get_workflow_details call.
C28_CacheAvoidsRefetch == [][C28_Step]_vars /\ []C28_FollowerFetchesNothing

\* witness of C28: one session fetched the details of both workflows, a
\* second one, started after it within the TTL and without reload, built both
\* tools without a fetch
C28_Witness ==
    \E c, d \in Live :
        /\ c # d
        /\ conn[d].fetched = WorkflowIds /\ conn[d].failed = {}
        /\ FollowsInWindow(c)
        /\ conn[c].search = "returned" /\ Len(conn[c].tools) = Len(Catalog)
        /\ conn[c].fetched = {}

-----------------------------------------------------------------------------
(* Properties of the tools a session offers and of the handlers behind them *)

\* the names in the tool list handed to the LLM of connection c
ToolListNames(c) == SeqRange(FunctionSchemas(conn[c].tools))

\* C31: for every session whose setup has ended, the tool names that have a
\* handler registered on its LLM are exactly the tool names of the tool list
\* handed to that LLM, also when its discovery was skipped or failed after an
\* earlier session discovered workflows.
C31_HandlersMatchToolList ==
    \A c \in Live : DOMAIN conn[c].handlers = ToolListNames(c)

\* how often the name web_search occurs in the tool list of connection c
WebSearchEntries(c) ==
    {i \in 1..Len(FunctionSchemas(conn[c].tools)) :
        FunctionSchemas(conn[c].tools)[i] = WebSearchName}

\* C32: in every session the tool list names web_search exactly once and the
\* handler registered under web_search is the local web-search executor,
\* whatever workflows were discovered and whether or not discovery succeeded.
C32_WebSearchOnceAndLocal ==
    \A c \in Live :
        /\ Cardinality(WebSearchEntries(c)) = 1
        /\ conn[c].handlers[WebSearchName].kind = "web_search"

-----------------------------------------------------------------------------
(* Properties of discovery passes that run side by side *)

\* what a pass returns when it runs alone against the catalog: one tool per
\* listed workflow, described from the detail the server gives for it
AloneTools ==
    [i \in 1..Len(Workflows) |->
        ToolFor(Workflows[i], ExtractWebhookDescription(RemoteDetails(Workflows[i].id)))]

RECURSIVE BoundNames(_)
BoundNames(listing) ==
    IF listing = << >> THEN EmptyMap
    ELSE MapPut(BoundNames(SubSeq(listing, 1, Len(listing) - 1)),
                SanitizeToolName(listing[Len(listing)].name), listing[Len(listing)].name)

\* the passes that have returned
ReturnedPasses == {c \in Live : conn[c].search = "returned"}

\* C33: with a catalog that does not change and remote calls that answer,
\* whatever the interleaving of the passes and of the reloads, a pass that has
\* returned gives the tools and the name map it gives when run alone: no read
\* of the cache failed, which would have left a tool with its fallback text.
C33_PassesTolerateEachOther ==
    \A c \in ReturnedPasses :
        /\ conn[c].tools = AloneTools
        /\ conn[c].nameMap = BoundNames(Workflows)

\* witness of C33: a reload was made, three passes have returned, and two of
\* them fetched the detail of the same workflow
C33_Witness ==
    /\ \E r \in DOMAIN req : req[r].op = "reload" /\ req[r].resp.code = 200
    /\ Cardinality(ReturnedPasses) = 3
    /\ \E c, d \in ReturnedPasses : c # d /\ conn[c].fetched \cap conn[d].fetched # {}
    /\ \A c \in ReturnedPasses : conn[c].tools = AloneTools

\* the get_workflow_details call of pass c raises in this step
FetchFails(c) == conn[c].pc = "fetch" /\ conn[c].i \in conn'[c].failed

\* the listing index a pass stands at: 0 before the listing is there, the
\* index of the workflow whose detail it awaits, past the end once returned
Position(rec) ==
    IF rec.pc = "search" THEN 0
    ELSE IF rec.pc = "fetch" THEN rec.i
    ELSE Len(Workflows) + 1

\* the listing indices pass c goes over in this step without a fetch
PassedOver(c) ==
    IF /\ conn[c].pc \in {"search", "fetch"}
       /\ conn'[c].pc \in {"fetch", "running"} /\ conn'[c].search = "returned"
    THEN {k \in 1..Len(Workflows) : Position(conn[c]) < k /\ k < Position(conn'[c])}
    ELSE {}

C34_Step ==
    \A c \in DOMAIN conn :
        /\ FetchFails(c) => cache' = cache /\ cacheTimestamp' = cacheTimestamp
        /\ \A k \in PassedOver(c) : Workflows[k].id \in DOMAIN cache'

\* C34: a step in which get_workflow_details raises leaves the cache as it
\* was - no entry for that id is created, no other entry changes - and a pass
\* never goes over a listed workflow whose id is not cached without issuing
\* the fetch for it: the next pass to come to that id fetches it again.
C34_FailedFetchNotCached == [][C34_Step]_vars

\* witness of C34: the pass of session 1 is over, its fetch for workflow "1"
\* failed, that id is not cached while the other is, and the pass of session 2
\* has issued the fetch for workflow "1"
C34_Witness ==
    /\ conn[1].pc = "running" /\ conn[1].failed = {1}
    /\ DOMAIN cache = {"2"}
    /\ conn[2].pc = "fetch" /\ conn[2].i = 1 /\ conn[2].fetched = {"1"}

-----------------------------------------------------------------------------
(* Frame of the registry operations *)

\* the registry call made in this step, when one is made
RegistryCall == hist'[Len(hist')]

C35_Step ==
    /\ hist' # hist =>
          /\ \A id \in RegistryIds \ {RegistryCall.id} :
                GetTask(sessions', id) = GetTask(sessions, id)
          /\ (RegistryCall.op = "unregister" /\ ~Registered(sessions, RegistryCall.id))
                => sessions' = sessions
    /\ req' # req => sessions' = sessions

C35_UnregisterPossible ==
    \A id \in RegistryIds : Len(hist) < MaxOps => ENABLED CallUnregister(id)

\* C35: a register or unregister call leaves the task of every other id as it
\* was; unregister of an id that is not registered changes nothing and can
\* always be made; announce, wake, reload-tools and health, from their first
\* step to their response, leave the registry as it was.
C35_OwnKeyOnly == [][C35_Step]_vars /\ []C35_UnregisterPossible

\* witness of C35: two sessions are registered, the last registry call was an
\* unregister of an id that is not registered, and a reload was answered 200
C35_Witness ==
    /\ Len(hist) = 3 /\ hist[3].op = "unregister"
    /\ hist[1].op = "register" /\ hist[2].op = "register"
    /\ hist[3].id \notin {hist[1].id, hist[2].id}
    /\ Len(sessions) = 2
    /\ \E r \in DOMAIN req : req[r].pc = "done" /\ req[r].op = "reload" /\ req[r].resp.code = 200

-----------------------------------------------------------------------------
(* The announcement of a reload *)

\* the speak frames this step queues into the task of connection d
NewFrames(d) == SubSeq(frames'[d], Len(frames[d]) + 1, Len(frames'[d]))

\* all the speak frames this step queues, whatever the task
AllNewFrames == UNION {SeqRange(NewFrames(d)) : d \in DOMAIN frames}

RECURSIVE SumOver(_, _)
SumOver(S, f) ==
    IF S = {} THEN 0
    ELSE LET x == CHOOSE x \in S : TRUE IN f[x] + SumOver(S \ {x}, f)

\* how many speak frames this step queues
NewFrameCount == SumOver(DOMAIN frames, [d \in DOMAIN frames |-> Len(frames'[d]) - Len(frames[d])])

C36_Step ==
    \A r \in DOMAIN req :
        (Handled(r) /\ req'[r].op = "reload" /\ req'[r].resp.code = 200) =>
            LET message == req'[r].body.message
                toolName == req'[r].body.tool_name
            IN /\ NewFrameCount <= 1
               /\ \A d \in DOMAIN frames : SubSeq(frames'[d], 1, Len(frames[d])) = frames[d]
               /\ message # "" => (NewFrameCount = 1 /\ AllNewFrames = {<<message>>})
               /\ (message = "" /\ toolName # "") =>
                     /\ NewFrameCount = 1
                     /\ AllNewFrames = {<<"A new tool called ", toolName, " is now available.">>}
               /\ (message = "" /\ toolName = "") => NewFrameCount = 0
               /\ DOMAIN cache' = {}
               /\ cacheTimestamp' = 0

\* C36: the step that handles a successful reload-tools request queues at most
\* one speak frame: the message when it is not empty, whether or not a tool is
\* named; else the sentence naming the tool when one is named; else none. In
\* all three cases the cache is left without entry.
C36_AtMostOneAnnouncement == [][C36_Step]_vars

\* witness of C36: a reload that carries a message and names a tool was
\* answered while both details had been cached; the cache is empty and the
\* message alone is queued
C36_Witness ==
    \E r \in DOMAIN req : \E c \in Running :
        /\ req[r].op = "reload" /\ req[r].resp.code = 200 /\ req[r].sid = PcId(c)
        /\ req[r].body.message = "Tools updated" /\ req[r].body.tool_name = "lights"
        /\ conn[c].fetched = WorkflowIds
        /\ CachedIds = {}
        /\ frames[c] = << <<"Tools updated">> >>

-----------------------------------------------------------------------------
(* The result callback of the tool handlers *)

\* the texts WebSearchTool.search returns
SearchTexts ==
    {TimeoutApology, SearchTrouble, NoResults, NoSummary, NoDescription, SummaryText, FirstBody}

\* a handler of connection c is suspended in its awaited call
HandlerPending(c) == conn[c].pc \in {"tool", "web_search"}

\* the last handler invoked on connection c has ended
WebSearchEnded(c) == conn[c].pc = "running" /\ conn[c].asked # None
WorkflowEnded(c) ==
    conn[c].pc = "running" /\ conn[c].call # None /\ conn[c].call.outcome # "pending"

-----------------------------------------------------------------------------
(* The HTTP session of the text-to-speech service *)

\* the services of the pipelines that run
Services == {conn[c].tts : c \in {d \in DOMAIN conn : conn[d].pc = "running"}}

C38_NoSessionAfterCleanup ==
    \A t \in Services : t.last = "cleanup returned" => t.session = NoHttpSession

C38_Step ==
    \A c \in DOMAIN conn :
        (conn[c].pc = "running" /\ conn'[c].pc = "running") =>
            LET t == conn[c].tts
                u == conn'[c].tts
            IN \* cleanup of a service that holds no session changes nothing
               /\ (t.session = NoHttpSession /\ t.cleanup = "idle"
                      /\ u.last = "cleanup returned" /\ t.speak = u.speak /\ t.yielded = u.yielded)
                     => u = [t EXCEPT !.last = "cleanup returned"]
               \* run_tts on a service that holds no session creates a new one
               /\ (t.session = NoHttpSession /\ u.last = "run_tts posted")
                     => /\ u.session \notin 1..t.created
                        /\ u.session \in u.open
                        /\ u.using = u.session

\* C38: whenever cleanup has returned - on a service never used, on one that
\* run_tts has used, on one already cleaned up - the service holds no HTTP
\* session; a cleanup of a service without session changes nothing, and a
\* run_tts after it creates a session that did not exist before.
C38_CleanupLeavesNoSession == [][C38_Step]_vars /\ []C38_NoSessionAfterCleanup

\* witness of C38: cleanup has returned on a service that created two
\* sessions, the second after the first was cleaned up, and both are closed
C38_Witness ==
    \E t \in Services :
        /\ t.last = "cleanup returned"
        /\ t.session = NoHttpSession
        /\ t.created = 2 /\ t.open = {} /\ t.closing = {}
        /\ t.speak = "idle"

=============================================================================
